---- MODULE Spec2Model ----
(***************************************************************************)
(* State-machine model of hala-io.  First part: the QUIC connection state  *)
(* (hala-net/src/quic/conn_state.rs): the mediator-guarded QuicConnState,  *)
(* the seven asynchronous operations of AsyncQuicConnState and the tasks   *)
(* that poll them.  The QUIC engine (quiche::Connection) is the            *)
(* environment: every call the code makes into it returns one of the       *)
(* results its signature allows and may move the engine's own state.       *)
(* Second part: the mio poller and its timer wheel                         *)
(* (hala-io-driver/src/mio/poller.rs), with the OS multiplexer and the     *)
(* clock as the environment.                                               *)
(***************************************************************************)
EXTENDS Integers, Sequences, FiniteSets, TLC

VARIABLES
    conn_phase,        \* engine: "open" | "closing" | "closed"; is_closed() <=> "closed"
    stream_state,      \* engine: per stream id "none" | "alive" | "fin" | "retired"
    opened_streams,    \* QuicConnState.opened_streams : HashSet<u64>
    incoming_streams,  \* QuicConnState.incoming_streams : VecDeque<u64>
    stream_id_seed,    \* AsyncQuicConnState.stream_id_seed : AtomicU64
    tasks,             \* the futures the callers hold, one per task
    last,              \* the poll (or call) whose result is on its way to the caller
    now,               \* poller: time since MioTimeWheel::new(), i.e. last_tick.elapsed()
    time_wheel,        \* poller: MioTimeWheel.time_wheel, its tick counter and slots
    timeouts,          \* poller: the MioTimeout handles, by token
    polled,            \* poller: the poll_once that has just returned
    last_poll,         \* poller: when the last poll_once returned
    steady,            \* poller: per timer, armed once and polled every tick since
    registry,          \* poller: mio's registry, the interests of each registered socket
    called,            \* poller: the register / reregister / deregister that has just returned
    timer_log,         \* poller: per timer, how often it was armed and returned, and
                       \* whether it is registered and not deregistered since
    conv,              \* poller: a duration and the tick count duration_to_ticks gave it
    DRIVER,            \* current/driver.rs: static DRIVER : OnceLock<Driver>
    driver_calls,      \* per thread, its last get_driver / register_driver and the result
    handles,           \* tcp: per socket handle, its wrapper and the driver calls made on it
    borrow,            \* shared: per LocalShared value, the borrow flag of its RefCell
    guards,            \* shared: the Ref / RefMut guards alive, and the value of each
    shared_call,       \* shared: the lock / lock_mut / try_lock_mut that has just returned
    mutex,             \* std::sync::Mutex, per value: locked, poisoned
    mutex_guards,      \* the guards of the mutexes alive: value, thread, std guard held
    mutex_call,        \* the operation on a mutex or a guard that has just returned
    handshake,         \* the handshake loop of a Connector and an acceptor: its position,
                       \* the datagram in buf, both engines
    stream_log         \* connection: the stream ids open_stream and accept have returned

connVars == <<conn_phase, stream_state, opened_streams, incoming_streams,
              stream_id_seed, tasks, last>>

pollerVars == <<now, time_wheel, timeouts, polled, last_poll, steady,
                registry, called, timer_log>>

vars == <<conn_phase, stream_state, opened_streams, incoming_streams,
          stream_id_seed, tasks, last,
          now, time_wheel, timeouts, polled, last_poll, steady,
          registry, called, timer_log,
          conv,
          DRIVER, driver_calls,
          handles,
          borrow, guards, shared_call,
          mutex, mutex_guards, mutex_call,
          handshake,
          stream_log>>

ticksVars == <<conv>>

driverVars == <<DRIVER, driver_calls>>

tcpVars == <<handles>>

sharedVars == <<borrow, guards, shared_call>>

mutexVars == <<mutex, mutex_guards, mutex_call>>

handshakeVars == <<handshake>>

logVars == <<stream_log>>

\* what the operations of the connection, of the poller, and of each of the
\* other parts leave alone
nonConnVars == <<pollerVars, ticksVars, driverVars, tcpVars, sharedVars, mutexVars,
    handshakeVars>>

nonPollerVars == <<connVars, ticksVars, driverVars, tcpVars, sharedVars, mutexVars,
    handshakeVars, logVars>>

nonTicksVars == <<connVars, pollerVars, driverVars, tcpVars, sharedVars, mutexVars,
    handshakeVars, logVars>>

nonDriverVars == <<connVars, pollerVars, ticksVars, tcpVars, sharedVars, mutexVars,
    handshakeVars, logVars>>

nonTcpVars == <<connVars, pollerVars, ticksVars, driverVars, sharedVars, mutexVars,
    handshakeVars, logVars>>

nonSharedVars == <<connVars, pollerVars, ticksVars, driverVars, tcpVars, mutexVars,
    handshakeVars, logVars>>

nonMutexVars == <<connVars, pollerVars, ticksVars, driverVars, tcpVars, sharedVars,
    handshakeVars, logVars>>

nonHandshakeVars == <<connVars, pollerVars, ticksVars, driverVars, tcpVars, sharedVars,
    mutexVars, logVars>>

----------------------------------------------------------------------------
(* Bounds of the model *)

\* longest incoming_streams the environment is allowed to build
MaxIncoming == 1
\* most `continue`s of send's loop within one poll
MaxRetry == 1
\* width of the stream id counter in the model (u64 in the code)
SeedBits == 3
\* width of a u32 in the model (32 in the code)
U32Bits == 5
\* longest incoming_streams of the accepting side's specification
AcceptQueue == MaxIncoming + 1

\* the poller's clock runs from 0 to MaxTime
MaxTime == 4
\* longest duration of a timer
MaxDuration == 3
\* longest timeout passed to poll_once
MaxTimeout == 3
\* longest duration handed to duration_to_ticks, in half milliseconds
MaxArmed == 70
\* number of Driver instances the threads may try to register
MaxDrivers == 3
\* number of socket handles the driver hands out
MaxFds == 2
\* number of guards of LocalShared values the program holds at a time
MaxGuards == 3
\* most datagrams of the server's first flight, and longest datagram
MaxFlight == 3
MaxDatagram == 3

(* Program constants *)

\* tick_duration: Duration::from_millis(1); time is counted in half
\* milliseconds
TickDuration == 2
\* TimeWheel::new(2048)
WheelSteps == 2048

\* open_stream: fetch_add(4, ..)
StreamIdStep == 4

SeedModulus == 2 ^ SeedBits

\* stream ids the callers and the peer use: 0 is the first locally
\* initiated stream, 1 the first stream initiated by the peer
StreamIds == {0, 1}

\* "io" pumps datagrams (send / recv); "app" works on streams
Tasks == {"io", "app"}

TaskOps(t) == IF t = "io" THEN {"send", "recv"}
              ELSE {"stream_send", "stream_recv", "accept"}

NoId == 0 - 1

----------------------------------------------------------------------------
(* QuicConnEvents: the mediator's key space *)

Ev(name, id) == [ev |-> name, id |-> id]

AllEvents ==
    {Ev("Send", NoId), Ev("Recv", NoId), Ev("Accept", NoId), Ev("OpenStream", NoId)}
    \cup {Ev("StreamSend", i) : i \in StreamIds}
    \cup {Ev("StreamRecv", i) : i \in StreamIds}

IdleTask == [pc |-> "idle", op |-> "none", id |-> NoId, fin |-> FALSE, sleep |-> "none"]

\* the event a future registers its waker under when its poll returns Pending
EventOf(task) ==
    CASE task.op = "send"        -> Ev("Send", NoId)
      [] task.op = "recv"        -> Ev("Recv", NoId)
      [] task.op = "stream_send" -> Ev("StreamSend", task.id)
      [] task.op = "stream_recv" -> Ev("StreamRecv", task.id)
      [] task.op = "accept"      -> Ev("Accept", NoId)
      [] OTHER                   -> Ev("OpenStream", NoId)

is_closed == conn_phase = "closed"

\* mediator: notify(event) wakes the wakers registered under it; wakeup_all
\* wakes every registered waker (the set of events is then AllEvents).
\* The waker a dropped future left behind is woken like any other: its task
\* has nothing to poll
Wake(tks, ntf) ==
    [t \in Tasks |->
        IF tks[t].pc = "parked" /\ EventOf(tks[t]) \in ntf
        THEN [tks[t] EXCEPT !.pc = "woken"]
        ELSE IF tks[t].pc = "dropped" /\ EventOf(tks[t]) \in ntf
        THEN [tks[t] EXCEPT !.pc = "dropped_woken"]
        ELSE tks[t]]

\* fn handle_close: cx.wakeup_all()
handle_close == AllEvents

----------------------------------------------------------------------------
(* Stream notification: handle_accept / handle_stream *)

\* a handle_accept that queues the stream and wakes nobody
handle_accept_Silent(cx, stream_id) ==
    IF stream_id \notin cx.opened
    THEN [opened   |-> cx.opened \cup {stream_id},
          incoming |-> Append(cx.incoming, stream_id),
          ntf      |-> cx.ntf]
    ELSE cx

\* a handle_accept that queues the stream whether or not it is opened
handle_accept_Always(cx, stream_id) ==
    [opened   |-> cx.opened \cup {stream_id},
     incoming |-> Append(cx.incoming, stream_id),
     ntf      |-> cx.ntf \cup {Ev("Accept", NoId)}]

\* cx is the part of the guarded state a closure changes, with the events
\* it has notified so far: [opened, incoming, ntf]
handle_accept(cx, stream_id) ==
    IF stream_id \notin cx.opened
    THEN [opened   |-> cx.opened \cup {stream_id},
          incoming |-> Append(cx.incoming, stream_id),
          ntf      |-> cx.ntf \cup {Ev("Accept", NoId)}]
    ELSE cx

RECURSIVE ForReadable(_, _)
ForReadable(cx, rs) ==
    IF rs = <<>> THEN cx
    ELSE LET c1 == handle_accept(cx, Head(rs))
         IN  ForReadable([c1 EXCEPT !.ntf = @ \cup {Ev("StreamRecv", Head(rs))}], Tail(rs))

RECURSIVE ForWritable(_, _)
ForWritable(cx, ws) ==
    IF ws = <<>> THEN cx
    ELSE LET c1 == handle_accept(cx, Head(ws))
         IN  ForWritable([c1 EXCEPT !.ntf = @ \cup {Ev("StreamSend", Head(ws))}], Tail(ws))

\* rs, ws: the ids quiche_conn.readable() and .writable() yield, in the
\* order the iterators yield them
handle_stream(cx, rs, ws) == ForWritable(ForReadable(cx, rs), ws)

\* every order in which an iterator can yield the ids of S
Iterations(S) ==
    {f \in [1..Cardinality(S) -> S] : \A s \in S : \E i \in 1..Cardinality(S) : f[i] = s}

\* engine: only live streams are readable, only live streams whose send
\* side is not finished are writable
ReadableIters(st) ==
    UNION {Iterations(R) : R \in SUBSET {s \in StreamIds : st[s] \in {"alive", "fin"}}}

WritableIters(st) ==
    UNION {Iterations(W) : W \in SUBSET {s \in StreamIds : st[s] = "alive"}}

\* the results of handle_stream the engine's readable()/writable() allow,
\* while the environment queues no more than cap streams
HandleStreamResultsUpTo(cx, st, cap) ==
    {h \in {handle_stream(cx, rs, ws) : rs \in ReadableIters(st), ws \in WritableIters(st)} :
        Len(h.incoming) <= cap}

HandleStreamResults(cx, st) == HandleStreamResultsUpTo(cx, st, MaxIncoming)

\* what one poll (or call) did: its result, the state it leaves and the
\* calls it made, in order
Out(res, val, phase, st, cx, calls, sleep) ==
    [res |-> res, val |-> val, phase |-> phase, streams |-> st,
     opened |-> cx.opened, incoming |-> cx.incoming, ntf |-> cx.ntf,
     calls |-> calls, sleep |-> sleep]

Cx0 == [opened |-> opened_streams, incoming |-> incoming_streams, ntf |-> {}]

Notified(cx, evs) == [cx EXCEPT !.ntf = @ \cup evs]

\* engine: a call may find the connection closed by the time it returns
\* (peer close, stateless reset, idle or draining timer)
PhasesAfter(ph) ==
    CASE ph = "open"    -> {"open", "closing", "closed"}
      [] ph = "closing" -> {"closing", "closed"}
      [] OTHER          -> {"closed"}

----------------------------------------------------------------------------
(* The engine as the code sees it: the results of each call *)

\* quiche_conn.send: Done once the connection is closed
EngineSendResults(ph) == IF ph = "closed" THEN {"done"} ELSE {"ok", "done", "err"}

\* quiche_conn.timeout(): None, Some(0) or Some(d), d > 0
EngineTimeouts == {"none", "zero", "some"}

\* quiche_conn.on_timeout(): the idle or the draining timer may close
OnTimeoutPhases(ph) == {ph, "closed"}

\* Sleep::new_with(get_local_poller()?, expired)?
SleepNewResults == {"ok", "err"}

\* polling a Sleep: one whose timer the poller has fired is Ready; one just
\* armed, or not yet fired, may already have run out
SleepPollResults(sleep) == IF sleep = "fired" THEN {"ready"} ELSE {"ready", "pending"}

----------------------------------------------------------------------------
(* AsyncQuicConnState::send, the closure given to on_poll *)

BrokenPipe(calls) ==
    Out("BrokenPipe", NoId, conn_phase, stream_state,
        Notified(Cx0, handle_close), calls \o <<"handle_close">>, "none")

\* state.quiche_conn.on_timeout(), appended to what the poll did so far
OnTimeout(ph, calls) ==
    {[phase |-> p2, calls |-> calls \o <<"on_timeout">>] : p2 \in OnTimeoutPhases(ph)}

RECURSIVE SendLoop(_, _, _)

\* Ok((send_size, send_info)): handle_stream, Ready(Ok)
SendOk(ph, calls) ==
    {Out("Ok", NoId, ph, stream_state, h, calls \o <<"send_ok", "handle_stream">>, "none") :
        h \in HandleStreamResults(Cx0, stream_state)}

\* Err(err): Ready(Err(into_io_error(err)))
SendErr(ph, calls) ==
    {Out("Err", NoId, ph, stream_state, Cx0, calls \o <<"send_err">>, "none")}

\* Err(Done), is_closed(): handle_close, Ready(Err(BrokenPipe))
SendDoneClosed(ph, done) ==
    {Out("BrokenPipe", NoId, ph, stream_state, Notified(Cx0, handle_close),
         done \o <<"handle_close">>, "none")}

\* a send that keeps a Sleep although the engine has no timeout
SendDoneNone_ArmsTimer(ph, done) ==
    {Out("Pending", NoId, ph, stream_state, Cx0, done \o <<"timeout_none">>, "armed")}

\* Err(Done), timeout() = None: Pending, no Sleep kept
SendDoneNone(ph, done) ==
    {Out("Pending", NoId, ph, stream_state, Cx0, done \o <<"timeout_none">>, "none")}

\* Err(Done), timeout() = Some(0): on_timeout(), continue
SendDoneZero(n, ph, done) ==
    IF n < MaxRetry
    THEN UNION {SendLoop(n + 1, x.phase, x.calls) : x \in OnTimeout(ph, done \o <<"timeout_zero">>)}
    ELSE {}

\* Err(Done), timeout() = Some(d), d > 0: Sleep::new_with(..)? and its first
\* poll, which registers the timer with the poller; Ready: on_timeout(),
\* continue; Pending: the Sleep is kept and the poll is Pending
SendDoneSome(n, ph, done) ==
    LET some == done \o <<"timeout_some">>
        armed == some \o <<"sleep_new", "register">>
    IN  UNION {
          IF r = "err"
          THEN {Out("Err", NoId, ph, stream_state, Cx0, some \o <<"sleep_new_err">>, "none")}
          ELSE UNION {
                 IF q = "pending"
                 THEN {Out("Pending", NoId, ph, stream_state, Cx0,
                           armed \o <<"sleep_pending">>, "armed")}
                 ELSE IF n < MaxRetry
                 THEN UNION {SendLoop(n + 1, x.phase, x.calls) :
                               x \in OnTimeout(ph, armed \o <<"sleep_ready">>)}
                 ELSE {} :
                 q \in SleepPollResults("armed")} :
          r \in SleepNewResults}

\* the `loop` of send: n is the number of `continue`s so far, ph the
\* engine's phase, calls what the poll has done up to here
SendLoop(n, ph, calls) ==
    LET rs == EngineSendResults(ph)
        done == calls \o <<"send_done">>
    IN  (IF "ok" \in rs THEN SendOk(ph, calls) ELSE {})
        \cup (IF "err" \in rs THEN SendErr(ph, calls) ELSE {})
        \cup (IF ph = "closed" THEN SendDoneClosed(ph, done)
              ELSE UNION {
                     CASE to = "none" -> SendDoneNone(ph, done)
                       [] to = "zero" -> SendDoneZero(n, ph, done)
                       [] OTHER       -> SendDoneSome(n, ph, done) :
                     to \in EngineTimeouts})

\* `if let Some(mut sleep) = sleep.take()`: the Sleep kept by the previous
\* poll is polled, then dropped; Ready: on_timeout()
SendSleepTaken(sleep) ==
    UNION {
      IF r = "ready"
      THEN UNION {SendLoop(0, x.phase, x.calls) : x \in OnTimeout(conn_phase, <<"sleep_ready">>)}
      ELSE SendLoop(0, conn_phase, <<"sleep_pending">>) :
      r \in SleepPollResults(sleep)}

\* a send that skips its closed check
SendEntryClosed_Skipped(ph) == FALSE

\* the closed check send makes before anything else
SendEntryClosed(ph) == ph = "closed"

SendPoll(task) ==
    IF SendEntryClosed(conn_phase) THEN {BrokenPipe(<<>>)}
    ELSE IF task.sleep = "none" THEN SendLoop(0, conn_phase, <<>>)
    ELSE SendSleepTaken(task.sleep)

----------------------------------------------------------------------------
(* AsyncQuicConnState::recv *)

\* a stream id is local when it carries the type bits of the seed
IsLocal(id) == id % StreamIdStep = stream_id_seed % StreamIdStep

\* engine: a received datagram may open streams the peer initiates
PeerOpens(st) ==
    {[s \in StreamIds |-> IF s \in N THEN "alive" ELSE st[s]] :
        N \in SUBSET {s \in StreamIds : st[s] = "none" /\ ~IsLocal(s)}}

\* a recv that reports the engine's Done as an error
RecvDoneResult_Err == "Err"

\* recv, Err(Done): what the poll returns
RecvDoneResult == "Pending"

RecvPollUpTo(cap) ==
    IF is_closed THEN {BrokenPipe(<<>>)}
    ELSE UNION {
        \* Ok(recv_size)
        (IF p2 = "closed"
         THEN {Out("Ok", NoId, p2, st2, Notified(Cx0, handle_close),
                   <<"recv_ok", "handle_close">>, "none") : st2 \in PeerOpens(stream_state)}
         ELSE UNION {
                {Out("Ok", NoId, p2, st2, h,
                     <<"recv_ok", "notify_send", "handle_stream">>, "none") :
                   h \in HandleStreamResultsUpTo(Notified(Cx0, {Ev("Send", NoId)}), st2, cap)} :
                st2 \in PeerOpens(stream_state)})
        \cup
        \* Err(Done)
        {Out(RecvDoneResult, NoId, p2, stream_state,
             IF p2 = "closed" THEN Notified(Cx0, handle_close) ELSE Cx0,
             IF p2 = "closed" THEN <<"recv_done", "handle_close">> ELSE <<"recv_done">>,
             "none")}
        \cup
        \* Err(err)
        {Out("Err", NoId, p2, stream_state,
             IF p2 = "closed" THEN Notified(Cx0, handle_close) ELSE Cx0,
             IF p2 = "closed" THEN <<"recv_err", "handle_close">> ELSE <<"recv_err">>,
             "none")} :
        p2 \in PhasesAfter(conn_phase)}

RecvPoll == RecvPollUpTo(MaxIncoming)

----------------------------------------------------------------------------
(* AsyncQuicConnState::stream_send / stream_recv *)

\* engine: a stream call may find the connection closed when it returns
StreamCallPhases(ph) == {ph, "closed"}

\* engine: stream_send can take data for a live stream whose send side is
\* open, and creates a local stream on first use
CanStreamSend(st, id) == st[id] = "alive" \/ (st[id] = "none" /\ IsLocal(id))

\* engine: stream_recv can yield data of a live stream
CanStreamRecv(st, id) == st[id] \in {"alive", "fin"}

\* a stream_send that keeps a finished stream in opened_streams
StreamSendOkOpened_Keeps(opened, id, fin) == opened

\* stream_send, Ok: opened_streams afterwards
StreamSendOkOpened(opened, id, fin) == IF fin THEN opened \ {id} ELSE opened

\* stream_send, Err(err): opened_streams afterwards
StreamSendErrOpened(opened, id, fin) == IF fin THEN opened \ {id} ELSE opened

StreamSendPoll(id, fin) ==
    IF is_closed THEN {BrokenPipe(<<>>)}
    ELSE UNION {
        (IF CanStreamSend(stream_state, id)
         THEN {Out("Ok", NoId, conn_phase,
                   [stream_state EXCEPT ![id] = IF fin THEN "fin" ELSE "alive"],
                   [Notified(Cx0, {Ev("Send", NoId)})
                        EXCEPT !.opened = StreamSendOkOpened(@, id, fin)],
                   <<"stream_send_ok", "notify_send">>, "none"),
               IF p2 = "closed"
               THEN Out("BrokenPipe", NoId, p2, stream_state, Notified(Cx0, handle_close),
                        <<"stream_send_done", "handle_close">>, "none")
               ELSE Out("Pending", NoId, p2, stream_state, Cx0,
                        <<"stream_send_done">>, "none")}
         ELSE {})
        \cup
        {Out("Err", NoId, p2, stream_state,
             [(IF p2 = "closed" THEN Notified(Cx0, handle_close) ELSE Cx0)
                  EXCEPT !.opened = StreamSendErrOpened(@, id, fin)],
             IF p2 = "closed" THEN <<"stream_send_err", "handle_close">>
                              ELSE <<"stream_send_err">>,
             "none")} :
        p2 \in StreamCallPhases(conn_phase)}

\* engine: a stream both of whose sides are finished is collected
AfterStreamRecv(st, id, f) ==
    IF f /\ st[id] = "fin" THEN [st EXCEPT ![id] = "retired"] ELSE st

\* a stream_recv that forgets to wake the send task
StreamRecvOkEvents_NoSend == {Ev("Recv", NoId)}

\* stream_recv, Ok on an open connection: the events notified
StreamRecvOkEvents == {Ev("Recv", NoId), Ev("Send", NoId)}

\* val is the fin flag stream_recv returns: 1 for true
StreamRecvPoll(id) ==
    IF is_closed THEN {BrokenPipe(<<>>)}
    ELSE UNION {
        (IF CanStreamRecv(stream_state, id)
         THEN {Out("Ok", IF f THEN 1 ELSE 0, p2, AfterStreamRecv(stream_state, id, f),
                   IF p2 = "closed" THEN Notified(Cx0, handle_close)
                   ELSE Notified(Cx0, StreamRecvOkEvents),
                   IF p2 = "closed" THEN <<"stream_recv_ok", "handle_close">>
                   ELSE <<"stream_recv_ok", "notify_recv", "notify_send">>,
                   "none") : f \in BOOLEAN}
              \cup
              {IF p2 = "closed"
               THEN Out("BrokenPipe", NoId, p2, stream_state, Notified(Cx0, handle_close),
                        <<"stream_recv_done", "handle_close">>, "none")
               ELSE Out("Pending", NoId, p2, stream_state, Cx0,
                        <<"stream_recv_done">>, "none")}
         ELSE {})
        \cup
        {Out("Err", NoId, p2, stream_state,
             IF p2 = "closed" THEN Notified(Cx0, handle_close) ELSE Cx0,
             IF p2 = "closed" THEN <<"stream_recv_err", "handle_close">>
                              ELSE <<"stream_recv_err">>,
             "none")} :
        p2 \in StreamCallPhases(conn_phase)}

----------------------------------------------------------------------------
(* AsyncQuicConnState::open_stream / close / accept *)

\* fetch_add(4, SeqCst) on the u64 counter: wraps around on overflow
FetchAdd(seed) == (seed + StreamIdStep) % SeedModulus

\* val is the id of the stream returned
OpenStreamPoll(id) ==
    IF is_closed
    THEN {Out("BrokenPipe", NoId, conn_phase, stream_state, Cx0, <<>>, "none")}
    ELSE {Out("Ok", id, conn_phase, stream_state,
              Notified(Cx0, {Ev("Send", NoId)}), <<"notify_send">>, "none")}

\* engine: close() succeeds once; Done when already closing or closed.
\* A connection that never processed a packet closes at once.
EngineClose(ph) ==
    IF ph = "open" THEN {[res |-> "Ok", phase |-> p2] : p2 \in {"closing", "closed"}}
    ELSE {[res |-> "Err", phase |-> ph]}

\* close: with_mut(|state| state.quiche_conn.close(..).map_err(into_io_error))
ClosePoll ==
    {Out(c.res, NoId, c.phase, stream_state, Cx0,
         IF c.res = "Ok" THEN <<"close_ok">> ELSE <<"close_done">>, "none") :
       c \in EngineClose(conn_phase)}

\* an accept that takes the stream queued last
AcceptPoll_Lifo ==
    IF is_closed
    THEN {Out("None", NoId, conn_phase, stream_state, Cx0, <<>>, "none")}
    ELSE IF incoming_streams # <<>>
    THEN {Out("Some", incoming_streams[Len(incoming_streams)], conn_phase, stream_state,
              [Cx0 EXCEPT !.incoming = SubSeq(@, 1, Len(@) - 1)], <<>>, "none")}
    ELSE {Out("Pending", NoId, conn_phase, stream_state, Cx0, <<>>, "none")}

\* an accept that keeps a timer while it waits
AcceptPoll_ArmsTimer ==
    IF is_closed
    THEN {Out("None", NoId, conn_phase, stream_state, Cx0, <<>>, "none")}
    ELSE IF incoming_streams # <<>>
    THEN {Out("Some", Head(incoming_streams), conn_phase, stream_state,
              [Cx0 EXCEPT !.incoming = Tail(@)], <<>>, "none")}
    ELSE {Out("Pending", NoId, conn_phase, stream_state, Cx0,
              <<"sleep_new", "register", "sleep_pending">>, "armed")}

\* val is the id of the stream returned
AcceptPoll ==
    IF is_closed
    THEN {Out("None", NoId, conn_phase, stream_state, Cx0, <<>>, "none")}
    ELSE IF incoming_streams # <<>>
    THEN {Out("Some", Head(incoming_streams), conn_phase, stream_state,
              [Cx0 EXCEPT !.incoming = Tail(@)], <<>>, "none")}
    ELSE {Out("Pending", NoId, conn_phase, stream_state, Cx0, <<>>, "none")}

----------------------------------------------------------------------------
(* The mio poller: hala-io-driver/src/mio/poller.rs *)

\* tokens of the Timeout handles and of the sockets
TimerTokens == {1}
SocketTokens == {2}

\* durations of the timers, in half milliseconds
Durations == 0..MaxDuration

\* Option::None of a Duration, an Instant or a slot
None == 0 - 1

\* ticks as u32: the tick count is cut to the width of a u32
AsU32(n) == n % (2 ^ U32Bits)

\* fn duration_to_ticks(duration, tick_duration, round_up)
duration_to_ticks(duration, tick_duration, round_up) ==
    LET ticks == duration \div tick_duration
    IN  IF round_up /\ tick_duration * AsU32(ticks) < duration
        THEN ticks + 1
        ELSE ticks

\* MioTimeout::new(duration) (tick_duration is set with start_time and is
\* the poller's)
MioTimeout(duration) == [duration |-> duration, start_time |-> None, slot |-> None]

\* no MioTimeout was created for the token
NoHandle == [duration |-> None, start_time |-> None, slot |-> None]

\* TimeWheel::add(ticks, token): the token goes to the slot the wheel
\* reaches after that many ticks
WheelSlot(wheel, ticks) == (wheel.tick + ticks) % WheelSteps

WheelAdd(wheel, ticks, token) ==
    [wheel EXCEPT !.timers = @ \cup {[slot |-> WheelSlot(wheel, ticks), token |-> token]}]

\* TimeWheel::remove(slot, token)
WheelRemove(wheel, slot, token) ==
    [wheel EXCEPT !.timers = @ \ {[slot |-> slot, token |-> token]}]

\* TimeWheel::tick(): one step; the tokens of the slot reached are taken out
WheelExpired(wheel) == {e \in wheel.timers : e.slot = (wheel.tick + 1) % WheelSteps}

WheelStep(wheel) ==
    [tick |-> wheel.tick + 1, timers |-> wheel.timers \ WheelExpired(wheel)]

\* a tick loop that forgets the tokens of the slots it passes
RECURSIVE TickLoop_Drops(_, _, _)
TickLoop_Drops(wheel, ticks, timeout_vec) ==
    IF ticks <= 0 THEN [wheel |-> wheel, timeout_vec |-> timeout_vec]
    ELSE TickLoop_Drops(WheelStep(wheel), ticks - 1, timeout_vec)

\* MioTimeWheel::tick: for _ in 0..ticks { time_wheel.tick() }
RECURSIVE TickLoop(_, _, _)
TickLoop(wheel, ticks, timeout_vec) ==
    IF ticks <= 0 THEN [wheel |-> wheel, timeout_vec |-> timeout_vec]
    ELSE TickLoop(WheelStep(wheel), ticks - 1,
                  timeout_vec \cup {e.token : e \in WheelExpired(wheel)})

\* a tick that makes one step of the wheel at most
tick_OneStep(wheel, elapsed, tick_duration) ==
    LET ticks == duration_to_ticks(elapsed, tick_duration, FALSE) - wheel.tick
    IN  TickLoop(wheel, IF ticks > 0 THEN 1 ELSE 0, {})

\* MioTimeWheel::tick(tick_duration) when last_tick.elapsed() is elapsed
tick(wheel, elapsed, tick_duration) ==
    LET ticks == duration_to_ticks(elapsed, tick_duration, FALSE) - wheel.tick
    IN  TickLoop(wheel, ticks, {})

\* poll_once: let poll_timeout = timeout.unwrap_or(self.tick_duration)
PollTimeout(timeout) == IF timeout = None THEN TickDuration ELSE timeout

\* Interest is a bit set; ^ is the symmetric difference
Xor(a, b) == (a \ b) \cup (b \ a)

\* poll_once: the interests reported for one mio event
Interests(event) ==
    LET interests == {"Readable", "Writable"}
    IN  IF ~event.readable THEN Xor(interests, {"Readable"})
        ELSE IF ~event.writable THEN Xor(interests, {"Writable"})
        ELSE interests

\* mio: the events a wait can deliver; an event that reports an error or
\* a hang-up only is neither readable nor writable
OsEvents == [token : SocketTokens, readable : BOOLEAN, writable : BOOLEAN]

\* mio: one wait delivers at most one event for a token
OsEventSets == {{}} \cup {{e} : e \in OsEvents}

\* mio Poll::poll(events, Some(poll_timeout)): returns when an event is
\* ready, or after poll_timeout
OsWaits(events, poll_timeout) ==
    IF events = {} THEN {poll_timeout} ELSE 0..poll_timeout

\* the timers poll_once appends: hala_events.push((token, Interest::Readable))
TimerEvent(token) == [token |-> token, interests |-> {"Readable"}]

\* MioTimeWheel::new: TimeWheel::new(2048), no tick made, no timer
NewWheel == [tick |-> 0, timers |-> {}]

\* no poll_once has just returned; wheel0 is the wheel the call found
NoPoll ==
    [res |-> "none", timeout |-> None, poll_timeout |-> None, waited |-> None,
     os |-> {}, events |-> {}, timers |-> {}, hala_events |-> {},
     wheel0 |-> NewWheel]

\* timers in the wheel
InWheel(wheel) == {e.token : e \in wheel.timers}

\* a timer that is polled, after it was armed, no later than one
\* tick_duration after it was armed and after the previous poll_once
SteadyAfter(t, returned) ==
    IF t \in InWheel(time_wheel)
    THEN steady[t] /\ returned - (IF last_poll > timeouts[t].start_time
                                  THEN last_poll ELSE timeouts[t].start_time) <= TickDuration
    ELSE steady[t]

\* MioTimeout::is_register
is_register(timeout) == timeout.start_time # None /\ timeout.slot # None

\* MioTimeout::is_expired, when start_time.elapsed() is read at time at
is_expired(timeout, at) ==
    IF timeout.start_time # None
    THEN LET elapsed == at - timeout.start_time
         IN  IF elapsed >= timeout.duration THEN TRUE
             ELSE IF timeout.duration - elapsed < TickDuration THEN TRUE
             ELSE FALSE
    ELSE FALSE

\* register / reregister: the mio interests of a socket, READABLE.add(WRITABLE)
\* less what the caller left out; remove(..) of the last interest is None
\* and its unwrap() panics: the empty set stands for that
MioInterests(interests) ==
    LET without_w == IF "Writable" \notin interests
                     THEN {"Readable", "Writable"} \ {"Writable"}
                     ELSE {"Readable", "Writable"}
    IN  IF "Readable" \notin interests THEN without_w \ {"Readable"} ELSE without_w

\* the interests the socket wrappers register with: a listener Readable,
\* a stream Readable | Writable
SocketInterests == {{"Readable"}, {"Readable", "Writable"}}

\* the timeouts the callers pass to poll_once: none, zero, and one longer
\* than a tick
Timeouts == {None, 0, MaxTimeout}

\* the socket is not in mio's registry
NotRegistered == {}

\* mio: an event reports what the socket was registered for
Delivers(reg, event) ==
    /\ reg[event.token] # NotRegistered
    /\ event.readable => "Readable" \in reg[event.token]
    /\ event.writable => "Writable" \in reg[event.token]

\* mio Registry::register / reregister / deregister: register fails on a
\* registered source, the two others on one that is not; any of them can
\* fail in the OS
RegistryResults(op, reg, s) ==
    IF (op = "register") = (reg[s] = NotRegistered) THEN {"ok", "err"} ELSE {"err"}

\* no registration call has just returned
NoCalled ==
    [op |-> "none", token |-> None, res |-> "none", undo |-> FALSE,
     wheel0 |-> {}, registry0 |-> {}]

\* a register that has just returned, with the wheel and the registry it found
Registered(token, res) ==
    [op |-> "register", token |-> token, res |-> res,
     undo |-> IF token \in TimerTokens THEN ~is_register(timeouts[token])
              ELSE registry[token] = NotRegistered,
     wheel0 |-> time_wheel.timers, registry0 |-> {registry}]

\* a deregister that has just returned; undo: it follows at once the
\* register of the same handle, which was not registered before, and
\* wheel0 / registry0 are what that register found
Deregistered(token, res) ==
    IF called.op = "register" /\ called.token = token /\ called.res = "ok" /\ called.undo
    THEN [called EXCEPT !.op = "deregister", !.res = res]
    ELSE [op |-> "deregister", token |-> token, res |-> res, undo |-> FALSE,
          wheel0 |-> {}, registry0 |-> {}]

\* a reregister that has just returned, with the wheel it found when it
\* was rejected
Reregistered(token, res) ==
    [op |-> "reregister", token |-> token, res |-> res, undo |-> FALSE,
     wheel0 |-> IF res = "panic" THEN time_wheel.timers ELSE {}, registry0 |-> {}]

\* a timer never armed
NoLog == [arms |-> 0, fired |-> 0, live |-> FALSE]

\* counts of the log stop at 2: once, or more than once
Once(n) == IF n < 2 THEN n + 1 ELSE 2

Armed(log) == [log EXCEPT !.arms = Once(@), !.live = TRUE]

\* no duration is being converted
NoArming == [duration |-> None, ticks |-> None]

\* register / reregister of a Timeout reach
\* duration_to_ticks(timeout.duration, self.tick_duration, true)
Arm ==
    /\ conv.duration # None
    /\ conv.ticks = None
    /\ conv' = [conv EXCEPT !.ticks = duration_to_ticks(conv.duration, TickDuration, TRUE)]
    /\ UNCHANGED nonTicksVars

\* BasicMioPoller::default()
PollerInit ==
    /\ now = 0
    /\ time_wheel = NewWheel
    /\ timeouts = [t \in TimerTokens |-> NoHandle]
    /\ polled = NoPoll
    /\ last_poll = 0
    /\ steady = [t \in TimerTokens |-> FALSE]
    /\ registry = [s \in SocketTokens |-> NotRegistered]
    /\ called = NoCalled
    /\ timer_log = [t \in TimerTokens |-> NoLog]

\* the caller creates a Timeout handle: MioTimeout::new(duration)
NewTimeout(t, duration) ==
    /\ timeouts[t] = NoHandle
    /\ timeouts' = [timeouts EXCEPT ![t] = MioTimeout(duration)]
    /\ polled' = NoPoll
    /\ called' = NoCalled
    /\ UNCHANGED <<now, time_wheel, last_poll, steady, registry, timer_log>>
    /\ UNCHANGED nonPollerVars

\* fn poll_once(&self, timeout): the OS wait, the events' interests, the
\* wheel's tick and the tokens of the expired timers as Readable; when the
\* OS wait fails, poll(..)? returns its error before the wheel is ticked
PollOnce(timeout, os, waited, res) ==
    /\ \A e \in os : Delivers(registry, e)
    /\ now + waited <= MaxTime
    /\ IF res = "Err"
       THEN /\ os = {}
            /\ waited <= PollTimeout(timeout)
            /\ now' = now + waited
            /\ polled' = [NoPoll EXCEPT !.res = "Err", !.timeout = timeout,
                                        !.poll_timeout = PollTimeout(timeout),
                                        !.waited = waited, !.wheel0 = time_wheel]
            /\ UNCHANGED <<time_wheel, last_poll, steady, timer_log>>
       ELSE /\ waited \in OsWaits(os, PollTimeout(timeout))
            /\ LET ticked == tick(time_wheel, now + waited, TickDuration)
                   events == {[token |-> e.token, interests |-> Interests(e)] : e \in os}
               IN  /\ now' = now + waited
                   /\ time_wheel' = ticked.wheel
                   /\ polled' = [res |-> "Ok",
                                 timeout |-> timeout, poll_timeout |-> PollTimeout(timeout),
                                 waited |-> waited, os |-> os,
                                 events |-> events,
                                 timers |-> ticked.timeout_vec,
                                 hala_events |-> events \cup
                                                 {TimerEvent(t) : t \in ticked.timeout_vec},
                                 wheel0 |-> time_wheel]
                   /\ last_poll' = now + waited
                   /\ steady' = [t \in TimerTokens |-> SteadyAfter(t, now + waited)]
                   /\ timer_log' = [t \in TimerTokens |->
                                       IF t \in ticked.timeout_vec
                                       THEN [timer_log[t] EXCEPT !.fired = Once(@)]
                                       ELSE timer_log[t]]
    /\ called' = NoCalled
    /\ UNCHANGED <<timeouts, registry>>
    /\ UNCHANGED nonPollerVars

\* a register that lets a zero duration through
ZeroDuration_Accepted(duration) == FALSE

\* register / reregister / deregister, Description::Timeout:
\* assert!(!timeout.duration.is_zero()) fails
ZeroDuration(duration) == duration = 0

\* fn register, Description::Timeout
Register(t) ==
    /\ timeouts[t] # NoHandle
    /\ IF ZeroDuration(timeouts[t].duration)
       THEN /\ called' = Registered(t, "panic")
            /\ UNCHANGED <<timeouts, time_wheel, steady, timer_log>>
       ELSE LET ticks == duration_to_ticks(timeouts[t].duration, TickDuration, TRUE)
            IN  /\ timeouts' = [timeouts EXCEPT ![t] =
                                   [@ EXCEPT !.start_time = now,
                                             !.slot = WheelSlot(time_wheel, ticks)]]
                /\ time_wheel' = WheelAdd(time_wheel, ticks, t)
                /\ steady' = [steady EXCEPT ![t] = t \notin InWheel(time_wheel)]
                /\ timer_log' = [timer_log EXCEPT ![t] = Armed(@)]
                /\ called' = Registered(t, "ok")
    /\ polled' = NoPoll
    /\ UNCHANGED <<now, last_poll, registry>>
    /\ UNCHANGED nonPollerVars

\* fn reregister, Description::Timeout: the prior slot is removed
Reregister(t) ==
    /\ timeouts[t] # NoHandle
    /\ IF ZeroDuration(timeouts[t].duration)
       THEN /\ called' = Reregistered(t, "panic")
            /\ UNCHANGED <<timeouts, time_wheel, steady, timer_log>>
       ELSE LET removed == IF timeouts[t].slot # None
                           THEN WheelRemove(time_wheel, timeouts[t].slot, t)
                           ELSE time_wheel
                ticks == duration_to_ticks(timeouts[t].duration, TickDuration, TRUE)
            IN  /\ time_wheel' = WheelAdd(removed, ticks, t)
                /\ timeouts' = [timeouts EXCEPT ![t] =
                                   [@ EXCEPT !.start_time = now,
                                             !.slot = WheelSlot(removed, ticks)]]
                /\ steady' = [steady EXCEPT ![t] = t \notin InWheel(removed)]
                /\ timer_log' = [timer_log EXCEPT ![t] = Armed(@)]
                /\ called' = Reregistered(t, "ok")
    /\ polled' = NoPoll
    /\ UNCHANGED <<now, last_poll, registry>>
    /\ UNCHANGED nonPollerVars

\* fn deregister, Description::Timeout
Deregister(t) ==
    /\ timeouts[t] # NoHandle
    /\ IF ZeroDuration(timeouts[t].duration)
       THEN /\ called' = Deregistered(t, "panic")
            /\ UNCHANGED <<time_wheel, steady, timer_log>>
       ELSE /\ time_wheel' = IF timeouts[t].slot # None
                             THEN WheelRemove(time_wheel, timeouts[t].slot, t)
                             ELSE time_wheel
            /\ steady' = [steady EXCEPT ![t] = FALSE]
            /\ timer_log' = [timer_log EXCEPT ![t] = [@ EXCEPT !.live = FALSE]]
            /\ called' = Deregistered(t, "ok")
    /\ polled' = NoPoll
    /\ UNCHANGED <<now, timeouts, last_poll, registry>>
    /\ UNCHANGED nonPollerVars

\* fn register, a socket: registry.register(source, token, mio_interests)
RegisterSocket(s, interests, res) ==
    /\ IF MioInterests(interests) = {}
       THEN /\ res = "panic"
            /\ UNCHANGED registry
       ELSE /\ res \in RegistryResults("register", registry, s)
            /\ registry' = IF res = "ok"
                           THEN [registry EXCEPT ![s] = MioInterests(interests)]
                           ELSE registry
    /\ called' = Registered(s, res)
    /\ polled' = NoPoll
    /\ UNCHANGED <<now, time_wheel, timeouts, last_poll, steady, timer_log>>
    /\ UNCHANGED nonPollerVars

\* fn reregister, a socket: registry.reregister(source, token, mio_interests)
ReregisterSocket(s, interests, res) ==
    /\ IF MioInterests(interests) = {}
       THEN /\ res = "panic"
            /\ UNCHANGED registry
       ELSE /\ res \in RegistryResults("reregister", registry, s)
            /\ registry' = IF res = "ok"
                           THEN [registry EXCEPT ![s] = MioInterests(interests)]
                           ELSE registry
    /\ called' = Reregistered(s, res)
    /\ polled' = NoPoll
    /\ UNCHANGED <<now, time_wheel, timeouts, last_poll, steady, timer_log>>
    /\ UNCHANGED nonPollerVars

\* fn deregister, a socket: registry.deregister(source)
DeregisterSocket(s, res) ==
    /\ res \in RegistryResults("deregister", registry, s)
    /\ registry' = IF res = "ok" THEN [registry EXCEPT ![s] = NotRegistered] ELSE registry
    /\ called' = Deregistered(s, res)
    /\ polled' = NoPoll
    /\ UNCHANGED <<now, time_wheel, timeouts, last_poll, steady, timer_log>>
    /\ UNCHANGED nonPollerVars

\* time passes between two calls
Elapse ==
    /\ now < MaxTime
    /\ now' = now + 1
    /\ polled' = NoPoll
    /\ called' = NoCalled
    /\ UNCHANGED <<time_wheel, timeouts, last_poll, steady, registry, timer_log>>
    /\ UNCHANGED nonPollerVars

----------------------------------------------------------------------------
(* The state machine *)

\* no poll is running and no result is on its way
NoCall ==
    [op |-> "none", task |-> "none", id |-> NoId, fin |-> FALSE, pre |-> FALSE, res |-> "none",
     val |-> NoId, calls |-> <<>>, ntf |-> {}, opened0 |-> {}, incoming0 |-> <<>>,
     was |-> "none"]

\* the executor polls one future at a time: the next poll starts when the
\* previous one has returned
Returned == last = NoCall

Last(t, op, id, fin, o) ==
    [op |-> op, task |-> t, id |-> id, fin |-> fin, pre |-> is_closed, res |-> o.res,
     val |-> o.val, calls |-> o.calls, ntf |-> o.ntf,
     opened0 |-> opened_streams, incoming0 |-> incoming_streams,
     was |-> IF t \in Tasks THEN tasks[t].pc ELSE "none"]

\* the specifications that do not follow the stream ids keep no log
NoStreamLog == [on |-> FALSE, opened |-> {}, accepted |-> [s \in StreamIds |-> 0]]

\* the ids returned so far: by open_stream for a stream not yet in use,
\* and by accept with how often (once, or more than once)
Logged(op, o) ==
    IF ~stream_log.on THEN stream_log
    ELSE IF op = "open_stream" /\ o.res = "Ok"
    THEN [stream_log EXCEPT !.opened =
             IF o.val \in StreamIds /\ stream_state[o.val] = "none"
             THEN @ \cup {o.val} ELSE @]
    ELSE IF op = "accept" /\ o.res = "Some"
    THEN [stream_log EXCEPT !.accepted[o.val] = Once(@)]
    ELSE stream_log

\* mediator on_poll: the closure runs on the guarded state; its
\* notifications wake the wakers registered so far; on Pending the caller's
\* waker is registered under the future's event before the state is released
OnPoll(t, op, id, fin, o) ==
    /\ conn_phase' = o.phase
    /\ stream_state' = o.streams
    /\ opened_streams' = o.opened
    /\ incoming_streams' = o.incoming
    /\ tasks' = [Wake(tasks, o.ntf) EXCEPT ![t] =
                    IF o.res = "Pending"
                    THEN [pc |-> "parked", op |-> op, id |-> id, fin |-> fin,
                          sleep |-> o.sleep]
                    ELSE IdleTask]
    /\ last' = Last(t, op, id, fin, o)
    /\ stream_log' = Logged(op, o)
    /\ UNCHANGED nonConnVars

\* a call that never suspends, made by any caller
OnCall(op, o) ==
    /\ conn_phase' = o.phase
    /\ stream_state' = o.streams
    /\ opened_streams' = o.opened
    /\ incoming_streams' = o.incoming
    /\ tasks' = Wake(tasks, o.ntf)
    /\ last' = Last("none", op, NoId, FALSE, o)
    /\ stream_log' = Logged(op, o)
    /\ UNCHANGED nonConnVars

\* task t may poll the future (op, id, fin): a new one when it holds none,
\* or the one it holds once its waker was invoked
MayPoll(t, op, id, fin) ==
    /\ Returned
    /\ op \in TaskOps(t)
    /\ \/ tasks[t].pc \in {"idle", "dropped", "dropped_woken"}
       \/ /\ tasks[t].pc = "woken"
          /\ tasks[t].op = op /\ tasks[t].id = id /\ tasks[t].fin = fin

Send(t) ==
    /\ MayPoll(t, "send", NoId, FALSE)
    /\ \E o \in SendPoll(tasks[t]) : OnPoll(t, "send", NoId, FALSE, o)
    /\ UNCHANGED stream_id_seed

Recv(t) ==
    /\ MayPoll(t, "recv", NoId, FALSE)
    /\ \E o \in RecvPoll : OnPoll(t, "recv", NoId, FALSE, o)
    /\ UNCHANGED stream_id_seed

\* recv while the peer may have one more stream waiting to be accepted
RecvQueueing(t) ==
    /\ MayPoll(t, "recv", NoId, FALSE)
    /\ \E o \in RecvPollUpTo(AcceptQueue) : OnPoll(t, "recv", NoId, FALSE, o)
    /\ UNCHANGED stream_id_seed

StreamSend(t, id, fin) ==
    /\ MayPoll(t, "stream_send", id, fin)
    /\ \E o \in StreamSendPoll(id, fin) : OnPoll(t, "stream_send", id, fin, o)
    /\ UNCHANGED stream_id_seed

StreamRecv(t, id) ==
    /\ MayPoll(t, "stream_recv", id, FALSE)
    /\ \E o \in StreamRecvPoll(id) : OnPoll(t, "stream_recv", id, FALSE, o)
    /\ UNCHANGED stream_id_seed

Accept(t) ==
    /\ MayPoll(t, "accept", NoId, FALSE)
    /\ \E o \in AcceptPoll : OnPoll(t, "accept", NoId, FALSE, o)
    /\ UNCHANGED stream_id_seed

OpenStream ==
    /\ Returned
    /\ stream_id_seed' = FetchAdd(stream_id_seed)
    /\ \E o \in OpenStreamPoll(stream_id_seed) : OnCall("open_stream", o)

\* close is synchronous (with_mut): a caller may call it again at once
Close ==
    /\ Returned \/ last.op = "close"
    /\ \E o \in ClosePoll : OnCall("close", o)
    /\ UNCHANGED stream_id_seed

\* the poller's tick emits the token of an armed timer: the Sleep's waker
\* is invoked and its next poll is Ready
TimerFire(t) ==
    /\ Returned
    /\ tasks[t].pc \in {"parked", "woken"}
    /\ tasks[t].sleep = "armed"
    /\ tasks' = [tasks EXCEPT ![t] = [@ EXCEPT !.pc = "woken", !.sleep = "fired"]]
    /\ UNCHANGED <<conn_phase, stream_state, opened_streams, incoming_streams,
                   stream_id_seed, last, stream_log>>
    /\ UNCHANGED nonConnVars

\* a dropped future leaves its waker in the mediator until the event is
\* notified. The stale waker is traced for accept; waking the stale waker
\* of another future has no effect either
Dropped(task) ==
    IF task.pc = "parked" /\ task.op = "accept"
    THEN [task EXCEPT !.pc = "dropped"]
    ELSE IdleTask

\* the caller drops a future that has not completed
Cancel(t) ==
    /\ Returned
    /\ tasks[t].pc \in {"parked", "woken"}
    /\ tasks' = [tasks EXCEPT ![t] = Dropped(@)]
    /\ UNCHANGED <<conn_phase, stream_state, opened_streams, incoming_streams,
                   stream_id_seed, last, stream_log>>
    /\ UNCHANGED nonConnVars

\* the poll's result reaches its caller
Return ==
    /\ ~Returned
    /\ last' = NoCall
    /\ UNCHANGED <<conn_phase, stream_state, opened_streams, incoming_streams,
                   stream_id_seed, tasks, stream_log>>
    /\ UNCHANGED nonConnVars

----------------------------------------------------------------------------
(* The process-wide driver (hala-io-util/src/current/driver.rs) *)

Threads == {"main", "worker"}

\* the Driver instances; a clone of a Driver is the same instance
Drivers == 1..MaxDrivers

\* the thread has not called yet
NoDriverCall == [op |-> "none", driver |-> None, res |-> "none", was |-> None]

\* OnceLock::new()
DriverInit ==
    /\ DRIVER = None
    /\ driver_calls = [th \in Threads |-> NoDriverCall]

\* OnceLock::set(value) that would store over the value already there
OnceLockSet_Overwrites(cell, value) == [cell |-> value, res |-> "Ok"]

\* OnceLock::set(value): stores into an empty cell only
OnceLockSet(cell, value) ==
    IF cell = None
    THEN [cell |-> value, res |-> "Ok"]
    ELSE [cell |-> cell, res |-> "Err"]

\* pub fn get_driver() -> io::Result<Driver>; `was` is the cell as the call
\* found it
get_driver(th) ==
    /\ driver_calls' = [driver_calls EXCEPT ![th] =
           IF DRIVER = None
           THEN [op |-> "get", driver |-> None, res |-> "NotFound", was |-> DRIVER]
           ELSE [op |-> "get", driver |-> DRIVER, res |-> "Ok", was |-> DRIVER]]
    /\ UNCHANGED DRIVER
    /\ UNCHANGED nonDriverVars

\* pub fn register_driver(driver) -> io::Result<()>
register_driver(th, driver) ==
    LET set == OnceLockSet(DRIVER, driver)
    IN  /\ DRIVER' = set.cell
        /\ driver_calls' = [driver_calls EXCEPT ![th] =
               [op |-> "register", driver |-> driver,
                res |-> IF set.res = "Ok" THEN "Ok" ELSE "PermissionDenied",
                was |-> DRIVER]]
        /\ UNCHANGED nonDriverVars

----------------------------------------------------------------------------
(* The socket wrappers: crates/net/tcp (listener.rs, stream.rs) and the
   wrappers of hala-io-driver/src/net.rs.  The driver is the environment:
   fd_open, Accept, Bind, Connect, Register and Deregister each return Ok
   or an error.  A handle's token is unique, so a handle is used once. *)

Fds == 1..MaxFds

Pollers == {"p1", "p2"}

Results == {"Ok", "Err"}

\* a handle the driver has not handed out
NoFd == [wrapper |-> "none", life |-> "none", open |-> FALSE, closes |-> 0,
         registered |-> {}, poller |-> "none", calls |-> <<>>]

TcpInit == handles = [fd \in Fds |-> NoFd]

\* one call to the driver about a handle
Call(cmd, poller, res) == [cmd |-> cmd, poller |-> poller, res |-> res]

\* the wrapper asked for a handle and got none: fd_open(..)? returned Err
NotOpened(wrapper) == [NoFd EXCEPT !.wrapper = wrapper, !.life = "failed"]

\* driver.fd_open(description, flags), or the handle of Cmd::Accept: the
\* handle is live and belongs to the wrapper under construction
fd_open(wrapper, how, poller) ==
    [NoFd EXCEPT !.wrapper = wrapper, !.life = "new", !.open = TRUE,
                 !.poller = poller, !.calls = <<Call(how, "none", "Ok")>>]

\* driver.fd_cntl(poller, Cmd::Register { source: fd, .. })
Register_fd(h, poller, res) ==
    [h EXCEPT !.registered = IF res = "Ok" THEN @ \cup {poller} ELSE @,
              !.calls = Append(@, Call("Register", poller, res))]

\* driver.fd_cntl(poller, Cmd::Deregister(fd))
Deregister_fd(h, poller, res) ==
    [h EXCEPT !.registered = IF res = "Ok" THEN @ \ {poller} ELSE @,
              !.calls = Append(@, Call("Deregister", poller, res))]

\* driver.fd_close(fd)
fd_close(h) ==
    [h EXCEPT !.open = FALSE, !.closes = @ + 1,
              !.calls = Append(@, Call("fd_close", "none", "Ok"))]

\* TcpStream::new_with(driver, fd, poller), and the same match in
\* TcpListener::bind_with: Register, and fd_close if it fails
new_with(h, poller, reg) ==
    LET r == Register_fd(h, poller, reg)
    IN  IF reg = "Ok"
        THEN [r EXCEPT !.life = "live"]
        ELSE [fd_close(r) EXCEPT !.life = "failed"]

\* TcpListener::bind_with(laddrs, driver, poller)
bind_with(fd, poller, open, reg) ==
    /\ handles[fd] = NoFd
    /\ handles' = [handles EXCEPT ![fd] =
           IF open = "Err"
           THEN NotOpened("TcpListener")
           ELSE new_with(fd_open("TcpListener", "fd_open", poller), poller, reg)]
    /\ UNCHANGED nonTcpVars

\* TcpListener::accept_with(poller), when Cmd::Accept yields a handle
accept_with(l, fd, poller, reg) ==
    /\ handles[l].wrapper = "TcpListener"
    /\ handles[l].life = "live"
    /\ handles[fd] = NoFd
    /\ handles' = [handles EXCEPT ![fd] =
           new_with(fd_open("TcpStream", "Accept", poller), poller, reg)]
    /\ UNCHANGED nonTcpVars

\* TcpStream::connect_with(raddrs, poller)
connect_with(fd, poller, open, reg) ==
    /\ handles[fd] = NoFd
    /\ handles' = [handles EXCEPT ![fd] =
           IF open = "Err"
           THEN NotOpened("TcpStream")
           ELSE new_with(fd_open("TcpStream", "fd_open", poller), poller, reg)]
    /\ UNCHANGED nonTcpVars

\* a drop that closes the handle before it deregisters it
drop_ClosesFirst(h, dereg) ==
    [Deregister_fd(fd_close(h), h.poller, dereg) EXCEPT !.life = "dropped"]

\* impl Drop for TcpListener, impl Drop for TcpStream:
\* fd_cntl(self.poller, Deregister(self.fd)).unwrap(); fd_close(self.fd).unwrap()
drop(h, dereg) ==
    LET d == Deregister_fd(h, h.poller, dereg)
    IN  IF dereg = "Ok"
        THEN [fd_close(d) EXCEPT !.life = "dropped"]
        ELSE [d EXCEPT !.life = "panicked"]

Drop(fd, dereg) ==
    /\ handles[fd].wrapper \in {"TcpListener", "TcpStream"}
    /\ handles[fd].life = "live"
    /\ handles' = [handles EXCEPT ![fd] = drop(@, dereg)]
    /\ UNCHANGED nonTcpVars

\* net.rs, TcpStream::new(driver, poller, handle): Register?
net_new(h, poller, reg) ==
    [Register_fd(h, poller, reg) EXCEPT !.life = IF reg = "Ok" THEN "live" ELSE "failed"]

\* net.rs, TcpListener::bind and TcpStream::connect: fd_open?, the address
\* and fd_ctl(handle, Bind | Connect)?, Register?
net_open(fd, poller, wrapper, open, ctl, reg) ==
    /\ handles[fd] = NoFd
    /\ handles' = [handles EXCEPT ![fd] =
           IF open = "Err"
           THEN NotOpened(wrapper)
           ELSE LET h == fd_open(wrapper, "fd_open", poller)
                IN  IF ctl = "Err"
                    THEN [h EXCEPT !.life = "failed",
                                   !.calls = Append(@, Call("fd_ctl", "none", "Err"))]
                    ELSE net_new(h, poller, reg)]
    /\ UNCHANGED nonTcpVars

\* net.rs, TcpListener::accept, when Accept yields a handle: the stream is
\* registered with the listener's poller
net_accept(l, fd, reg) ==
    /\ handles[l].wrapper = "net::TcpListener"
    /\ handles[l].life = "live"
    /\ handles[fd] = NoFd
    /\ handles' = [handles EXCEPT ![fd] =
           net_new(fd_open("net::TcpStream", "Accept", handles[l].poller),
                   handles[l].poller, reg)]
    /\ UNCHANGED nonTcpVars

\* net.rs: the wrappers have no Drop; the last clone goes out of scope
net_drop(fd) ==
    /\ handles[fd].wrapper \in {"net::TcpListener", "net::TcpStream"}
    /\ handles[fd].life = "live"
    /\ handles' = [handles EXCEPT ![fd].life = "dropped"]
    /\ UNCHANGED nonTcpVars

----------------------------------------------------------------------------
(* LocalShared (shared/src/lib.rs): Rc<RefCell<T>>.  The RefCell keeps a
   borrow flag: 0 unused, n > 0 for n shared borrows, Writing for the one
   mutable borrow. *)

\* two LocalShared values (the clones of one share its RefCell)
Cells == {"a", "b"}

GuardIds == 1..MaxGuards

\* the flag of a mutably borrowed RefCell
Writing == 0 - 1

NoGuard == [cell |-> "none", kind |-> "none"]

NoSharedCall == [op |-> "none", cell |-> "none", res |-> "none", alive0 |-> {}]

\* LocalShared::from(value): Rc::new(RefCell::new(value))
SharedInit ==
    /\ borrow = [c \in Cells |-> 0]
    /\ guards = [g \in GuardIds |-> NoGuard]
    /\ shared_call = NoSharedCall

\* the guards of the value that are alive
Alive(c) == {g \in GuardIds : guards[g].cell = c}

\* a try_borrow_mut that looks for a mutable borrow only
try_borrow_mut_IgnoresShared(flag) ==
    IF flag >= 0 THEN [flag |-> Writing, ok |-> TRUE] ELSE [flag |-> flag, ok |-> FALSE]

\* RefCell::try_borrow_mut: succeeds on an unused RefCell only
try_borrow_mut(flag) ==
    IF flag = 0 THEN [flag |-> Writing, ok |-> TRUE] ELSE [flag |-> flag, ok |-> FALSE]

\* RefCell::try_borrow: succeeds unless the RefCell is mutably borrowed
try_borrow(flag) ==
    IF flag >= 0 THEN [flag |-> flag + 1, ok |-> TRUE] ELSE [flag |-> flag, ok |-> FALSE]

\* the call returns a guard, which the caller keeps in g, or returns none /
\* panics
Locked(op, c, g, kind, got, res) ==
    /\ got.ok => guards[g] = NoGuard
    /\ borrow' = [borrow EXCEPT ![c] = got.flag]
    /\ guards' = IF got.ok THEN [guards EXCEPT ![g] = [cell |-> c, kind |-> kind]] ELSE guards
    /\ shared_call' = [op |-> op, cell |-> c,
                       res |-> IF got.ok THEN kind ELSE res,
                       alive0 |-> Alive(c)]
    /\ UNCHANGED nonSharedVars

\* fn lock(&self) -> Ref: self.value.borrow(), which panics if the value
\* is mutably borrowed
LocalShared_lock(c, g) == Locked("lock", c, g, "Ref", try_borrow(borrow[c]), "panic")

\* fn lock_mut(&self) -> RefMut: self.value.borrow_mut(), which panics if
\* the value is borrowed
LocalShared_lock_mut(c, g) ==
    Locked("lock_mut", c, g, "RefMut", try_borrow_mut(borrow[c]), "panic")

\* fn try_lock_mut(&self) -> Option<RefMut>
LocalShared_try_lock_mut(c, g) ==
    Locked("try_lock_mut", c, g, "RefMut", try_borrow_mut(borrow[c]), "None")

\* a guard goes out of scope: Ref gives its shared borrow back, RefMut
\* leaves the RefCell unused
DropGuard(g) ==
    /\ guards[g] # NoGuard
    /\ borrow' = [borrow EXCEPT ![guards[g].cell] =
                     IF guards[g].kind = "Ref" THEN @ - 1 ELSE 0]
    /\ guards' = [guards EXCEPT ![g] = NoGuard]
    /\ shared_call' = NoSharedCall
    /\ UNCHANGED nonSharedVars

----------------------------------------------------------------------------
(* std::sync::Mutex, as MutexShared (shared/src/lib.rs) and as Locker
   (external/locks/src/mutex.rs) use it.  A mutex is locked or not, and
   poisoned once a thread panicked holding it.  A guard object belongs to
   a thread; std_guard tells whether it still holds the lock. *)

NoMutexGuard == [cell |-> "none", thread |-> "none", std_guard |-> FALSE]

NoMutexCall == [op |-> "none", cell |-> "none", guard |-> None, res |-> "none",
                alive0 |-> {}, held0 |-> FALSE, locked0 |-> FALSE]

\* Mutex::new(data)
MutexInit ==
    /\ mutex = [c \in Cells |-> [locked |-> FALSE, poisoned |-> FALSE]]
    /\ mutex_guards = [g \in GuardIds |-> NoMutexGuard]
    /\ mutex_call = NoMutexCall

\* the guards that hold the lock of the value
Holders(c) == {g \in GuardIds : mutex_guards[g].cell = c /\ mutex_guards[g].std_guard}

\* a try_lock that takes a locked mutex all the same
Mutex_try_lock_Shared(m) ==
    IF m.poisoned THEN "Poisoned" ELSE "Ok"

\* Mutex::try_lock: Err(WouldBlock) if locked; Err(Poisoned(guard)) if a
\* holder panicked; Ok(guard) otherwise
Mutex_try_lock(m) ==
    IF m.locked THEN "WouldBlock" ELSE IF m.poisoned THEN "Poisoned" ELSE "Ok"

\* the std guards in gs are dropped: their mutexes are unlocked, and
\* poisoned if the thread is panicking
Released(gs, panicking) ==
    [c \in Cells |->
        IF \E g \in gs : mutex_guards[g].cell = c /\ mutex_guards[g].std_guard
        THEN [locked |-> FALSE, poisoned |-> mutex[c].poisoned \/ panicking]
        ELSE mutex[c]]

\* the guard objects of a thread
GuardsOf(th) == {g \in GuardIds : mutex_guards[g].thread = th}

\* the record of a call on the mutex of c, or on the guard g
MutexCalled(op, c, g, res) ==
    [op |-> op, cell |-> c, guard |-> g, res |-> res, alive0 |-> Holders(c),
     held0 |-> mutex_guards[g].std_guard, locked0 |-> mutex[c].locked]

\* the thread unwinds: its guards are dropped, the mutexes they held are
\* poisoned
Unwound(th) ==
    /\ mutex' = Released(GuardsOf(th), TRUE)
    /\ mutex_guards' = [g \in GuardIds |->
                           IF g \in GuardsOf(th) THEN NoMutexGuard ELSE mutex_guards[g]]

\* the outcome of try_lock, or of lock once it has the mutex: a guard kept
\* in g, or an error whose guard is dropped at once
Acquired(op, th, c, g, got, err) ==
    /\ got = "Ok" => mutex_guards[g] = NoMutexGuard
    /\ mutex_call' = MutexCalled(op, c, g, IF got = "Ok" THEN "Guard" ELSE err)
    /\ IF got = "Ok"
       THEN /\ mutex' = [mutex EXCEPT ![c].locked = TRUE]
            /\ mutex_guards' = [mutex_guards EXCEPT ![g] =
                                   [cell |-> c, thread |-> th, std_guard |-> TRUE]]
       ELSE IF err = "panic"
       THEN Unwound(th)
       ELSE UNCHANGED <<mutex, mutex_guards>>
    /\ UNCHANGED nonMutexVars

\* Mutex::lock blocks while the mutex is locked (a thread that holds it
\* itself deadlocks or panics)
Mutex_lock(m) == ~m.locked

\* MutexShared::lock: self.value.lock().unwrap()
MutexShared_lock(th, c, g) ==
    /\ Mutex_lock(mutex[c])
    /\ Acquired("lock", th, c, g, Mutex_try_lock(mutex[c]), "panic")

\* MutexShared::lock_mut: self.value.lock().unwrap()
MutexShared_lock_mut(th, c, g) ==
    /\ Mutex_lock(mutex[c])
    /\ Acquired("lock_mut", th, c, g, Mutex_try_lock(mutex[c]), "panic")

\* MutexShared::try_lock_mut: Some(guard) if try_lock is Ok, None otherwise
MutexShared_try_lock_mut(th, c, g) ==
    Acquired("try_lock_mut", th, c, g, Mutex_try_lock(mutex[c]), "None")

\* a guard object goes out of scope: the std guard it still holds, if any,
\* is dropped
DropMutexGuard(g) ==
    /\ mutex_guards[g] # NoMutexGuard
    /\ mutex_call' = MutexCalled("drop", mutex_guards[g].cell, g, "none")
    /\ mutex' = Released({g}, FALSE)
    /\ mutex_guards' = [mutex_guards EXCEPT ![g] = NoMutexGuard]
    /\ UNCHANGED nonMutexVars

\* impl Locker for std::sync::Mutex, sync_lock:
\* MutexGuard { std_guard: Some(self.lock().unwrap()) }
sync_lock(th, c, g) ==
    /\ Mutex_lock(mutex[c])
    /\ Acquired("sync_lock", th, c, g, Mutex_try_lock(mutex[c]), "panic")

\* try_sync_lock: Some(MutexGuard { .. }) if try_lock is Ok, None otherwise
try_sync_lock(th, c, g) ==
    Acquired("try_sync_lock", th, c, g, Mutex_try_lock(mutex[c]), "None")

\* an unlock that leaves the std guard in the guard object
take_Keeps(guard) == guard

\* self.std_guard.take(): the guard object is left with None
take(guard) == [guard EXCEPT !.std_guard = FALSE]

\* LockerGuard::unlock(&mut self): the std guard taken out is dropped
unlock(g) ==
    LET taken == take(mutex_guards[g])
    IN  /\ mutex_guards[g] # NoMutexGuard
        /\ mutex_call' = MutexCalled("unlock", mutex_guards[g].cell, g, "none")
        /\ mutex' = IF mutex_guards[g].std_guard /\ ~taken.std_guard
                    THEN Released({g}, FALSE)
                    ELSE mutex
        /\ mutex_guards' = [mutex_guards EXCEPT ![g] = taken]
        /\ UNCHANGED nonMutexVars

\* a thread panics while it holds guards
Panic(th) ==
    /\ GuardsOf(th) # {}
    /\ mutex_call' = NoMutexCall
    /\ Unwound(th)
    /\ UNCHANGED nonMutexVars

----------------------------------------------------------------------------
(* The handshake loop (hala-net/src/quic/old/mod.rs, test_connect_accept)
   over Connector (connector.rs).  The two QUIC engines and the acceptor
   are not part of the sources: the engines are the handshake of QUIC
   without loss (the client's Initial, the server's first flight of one or
   more datagrams, the client's Finished, the server's confirmation), and
   the acceptor hands out a connection once its engine is established. *)

HandshakeInit ==
    handshake = [pc |-> "connector.send", round |-> 1, send_size |-> 0,
                 c_sent |-> 0, c_got |-> 0, c_established |-> FALSE, c_finished |-> FALSE,
                 flight |-> 0, s_sent |-> 0, s_established |-> FALSE, conns |-> 0]

\* quiche::Connection::send of the client: Done when it has nothing to
\* send, else the length of the datagram written
ClientSend(h, size) ==
    IF h.c_sent > 0 /\ h.c_got = 0 THEN "Done" ELSE "Ok"

\* Connector::send: every engine error becomes ConnectionRefused
Connector_send(res, size) ==
    IF res = "Ok" THEN [ok |-> TRUE, len |-> size] ELSE [ok |-> FALSE, len |-> 0]

\* a Connector::recv that reports one byte less than the engine read
Connector_recv_Short(len, closed) ==
    IF closed THEN [ok |-> FALSE, len |-> 0] ELSE [ok |-> TRUE, len |-> len - 1]

\* Connector::recv: the engine's length, or ConnectionRefused if the
\* connection is closed after the datagram
Connector_recv(len, closed) ==
    IF closed THEN [ok |-> FALSE, len |-> 0] ELSE [ok |-> TRUE, len |-> len]

\* Connector::is_established
is_established(h) == h.c_established

\* let (send_size, send_info) = connector.send(&mut buf).unwrap()
ConnectorSend(size) ==
    LET sent == Connector_send(ClientSend(handshake, size), size)
    IN  /\ handshake.pc = "connector.send"
        /\ handshake' =
              IF sent.ok
              THEN [handshake EXCEPT !.pc = "acceptor.recv", !.send_size = sent.len,
                                     !.c_sent = 1,
                                     !.c_finished = handshake.c_established]
              ELSE [handshake EXCEPT !.pc = "panicked"]
        /\ UNCHANGED nonHandshakeVars

\* acceptor.recv(&mut buf[..send_size], ..).unwrap() and
\* assert_eq!(read_size, send_size): the first datagram creates the
\* server's connection, whose first flight takes `flight` datagrams; the
\* client's Finished establishes it
AcceptorRecv(flight) ==
    /\ handshake.pc = "acceptor.recv"
    /\ handshake.flight = 0 \/ flight = handshake.flight
    /\ handshake' = [handshake EXCEPT !.pc = "acceptor.send", !.flight = flight,
                                      !.s_established = handshake.c_finished]
    /\ UNCHANGED nonHandshakeVars

\* let (send_size, send_info) = acceptor.send(&mut buf).unwrap(): the next
\* datagram of the server's flight, or its confirmation
AcceptorSend(size) ==
    /\ handshake.pc = "acceptor.send"
    /\ handshake' = [handshake EXCEPT !.pc = "acceptor.accept", !.send_size = size,
                                      !.s_sent = IF @ < handshake.flight THEN @ + 1 ELSE @]
    /\ UNCHANGED nonHandshakeVars

\* match acceptor.accept(): Ok(conns) with the asserts and the break, or
\* WouldBlock
AcceptorAccept ==
    /\ handshake.pc = "acceptor.accept"
    /\ handshake' =
          IF handshake.s_established
          THEN [handshake EXCEPT !.conns = 1,
                                 !.pc = IF is_established(handshake)
                                        THEN "done" ELSE "panicked"]
          ELSE [handshake EXCEPT !.pc = "connector.recv"]
    /\ UNCHANGED nonHandshakeVars

\* let read_size = connector.recv(&mut buf[..send_size], ..).unwrap() and
\* assert_eq!(read_size, send_size): the client is established once it
\* has the whole flight of the server
ConnectorRecv ==
    LET read == Connector_recv(handshake.send_size, FALSE)
    IN  /\ handshake.pc = "connector.recv"
        /\ handshake' =
              IF read.ok /\ read.len = handshake.send_size
              THEN [handshake EXCEPT !.pc = "connector.send", !.round = @ + 1,
                                     !.c_got = handshake.s_sent,
                                     !.c_established = handshake.s_sent = handshake.flight]
              ELSE [handshake EXCEPT !.pc = "panicked"]
        /\ UNCHANGED nonHandshakeVars

----------------------------------------------------------------------------
(* The specifications *)

\* AsyncQuicConnState::new(quiche_conn, stream_id_seed) on a fresh
\* connection, and BasicMioPoller::default()
ConnInit ==
    /\ conn_phase = "open"
    /\ stream_state = [s \in StreamIds |-> "none"]
    /\ opened_streams = {}
    /\ incoming_streams = <<>>
    /\ stream_id_seed = 0
    /\ tasks = [t \in Tasks |-> IdleTask]
    /\ last = NoCall

Init ==
    /\ ConnInit
    /\ PollerInit
    /\ conv = NoArming
    /\ DriverInit
    /\ TcpInit
    /\ SharedInit
    /\ MutexInit
    /\ HandshakeInit
    /\ stream_log = NoStreamLog

Next ==
    \/ \E t \in Tasks : Send(t)
    \/ \E t \in Tasks : Recv(t)
    \/ \E t \in Tasks, id \in StreamIds, fin \in BOOLEAN : StreamSend(t, id, fin)
    \/ \E t \in Tasks, id \in StreamIds : StreamRecv(t, id)
    \/ \E t \in Tasks : Accept(t)
    \/ OpenStream
    \/ Close
    \/ \E t \in Tasks : TimerFire(t)
    \/ \E t \in Tasks : Cancel(t)
    \/ Return

Spec == Init /\ [][Next]_vars

\* the executor polls again a future whose waker was invoked
Repoll(t) ==
    /\ tasks[t].pc = "woken"
    /\ \/ Send(t)
       \/ Recv(t)
       \/ \E id \in StreamIds, fin \in BOOLEAN : StreamSend(t, id, fin)
       \/ \E id \in StreamIds : StreamRecv(t, id)
       \/ Accept(t)

\* a woken future is polled again, a due timer fires, a poll returns
Fairness ==
    /\ \A t \in Tasks : WF_vars(Repoll(t))
    /\ \A t \in Tasks : WF_vars(TimerFire(t))
    /\ WF_vars(Return)

FairSpec == Init /\ [][Next]_vars /\ Fairness

\* the accepting side of a connection: datagrams arrive and queue streams,
\* the application accepts them, drops accepts, writes to streams, closes
AcceptNext ==
    \/ \E t \in Tasks : RecvQueueing(t)
    \/ \E t \in Tasks, id \in StreamIds, fin \in BOOLEAN : StreamSend(t, id, fin)
    \/ \E t \in Tasks : Accept(t)
    \/ Close
    \/ \E t \in Tasks : Cancel(t)
    \/ Return

AcceptSpec == Init /\ [][AcceptNext]_vars

\* the connection, with the stream ids open_stream and accept return
\* followed from its creation
StreamsInit ==
    /\ ConnInit
    /\ PollerInit
    /\ conv = NoArming
    /\ DriverInit
    /\ TcpInit
    /\ SharedInit
    /\ MutexInit
    /\ HandshakeInit
    /\ stream_log = [NoStreamLog EXCEPT !.on = TRUE]

\* datagrams arrive, the application opens streams, writes to streams,
\* accepts streams and closes the connection
StreamsNext ==
    \/ \E t \in Tasks : Recv(t)
    \/ \E t \in Tasks, id \in StreamIds, fin \in BOOLEAN : StreamSend(t, id, fin)
    \/ \E t \in Tasks : Accept(t)
    \/ OpenStream
    \/ Close
    \/ Return

StreamsSpec == StreamsInit /\ [][StreamsNext]_vars

\* the poller and its callers
PollerNext ==
    \/ \E t \in TimerTokens, d \in Durations : NewTimeout(t, d)
    \/ \E timeout \in Timeouts, os \in OsEventSets,
          waited \in 0..MaxTimeout, res \in {"Ok", "Err"} :
              PollOnce(timeout, os, waited, res)
    \/ \E t \in TimerTokens : Register(t)
    \/ \E t \in TimerTokens : Reregister(t)
    \/ \E t \in TimerTokens : Deregister(t)
    \/ \E sk \in SocketTokens, interests \in SocketInterests,
          res \in {"ok", "err", "panic"} : RegisterSocket(sk, interests, res)
    \/ \E sk \in SocketTokens, interests \in SocketInterests,
          res \in {"ok", "err", "panic"} : ReregisterSocket(sk, interests, res)
    \/ \E sk \in SocketTokens, res \in {"ok", "err"} : DeregisterSocket(sk, res)
    \/ Elapse

PollerSpec == Init /\ [][PollerNext]_vars

\* the conversion of a timer's duration to ticks, over the durations up to
\* MaxArmed
TicksInit ==
    /\ ConnInit
    /\ PollerInit
    /\ \E duration \in 1..MaxArmed : conv = [duration |-> duration, ticks |-> None]
    /\ DriverInit
    /\ TcpInit
    /\ SharedInit
    /\ MutexInit
    /\ HandshakeInit
    /\ stream_log = NoStreamLog

TicksNext == Arm

TicksSpec == TicksInit /\ [][TicksNext]_vars

\* the threads of the process get and register the driver
DriverNext ==
    \/ \E th \in Threads : get_driver(th)
    \/ \E th \in Threads, driver \in Drivers : register_driver(th, driver)

DriverSpec == Init /\ [][DriverNext]_vars

\* the socket wrappers are constructed and dropped; the driver and the
\* poller answer each call with a result of its signature
TcpNext ==
    \/ \E fd \in Fds, poller \in Pollers, open \in Results, reg \in Results :
          bind_with(fd, poller, open, reg)
    \/ \E l \in Fds, fd \in Fds, poller \in Pollers, reg \in Results :
          accept_with(l, fd, poller, reg)
    \/ \E fd \in Fds, poller \in Pollers, open \in Results, reg \in Results :
          connect_with(fd, poller, open, reg)
    \/ \E fd \in Fds, dereg \in Results : Drop(fd, dereg)
    \/ \E fd \in Fds, poller \in Pollers, wrapper \in {"net::TcpListener", "net::TcpStream"},
          open \in Results, ctl \in Results, reg \in Results :
          net_open(fd, poller, wrapper, open, ctl, reg)
    \/ \E l \in Fds, fd \in Fds, reg \in Results : net_accept(l, fd, reg)
    \/ \E fd \in Fds : net_drop(fd)

TcpSpec == Init /\ [][TcpNext]_vars

\* the single thread that owns the LocalShared values locks them and drops
\* the guards
SharedNext ==
    \/ \E c \in Cells, g \in GuardIds : LocalShared_lock(c, g)
    \/ \E c \in Cells, g \in GuardIds : LocalShared_lock_mut(c, g)
    \/ \E c \in Cells, g \in GuardIds : LocalShared_try_lock_mut(c, g)
    \/ \E g \in GuardIds : DropGuard(g)

SharedSpec == Init /\ [][SharedNext]_vars

\* the threads lock MutexShared values, drop the guards, and may panic
MutexNext ==
    \/ \E th \in Threads, c \in Cells, g \in GuardIds : MutexShared_lock(th, c, g)
    \/ \E th \in Threads, c \in Cells, g \in GuardIds : MutexShared_lock_mut(th, c, g)
    \/ \E th \in Threads, c \in Cells, g \in GuardIds : MutexShared_try_lock_mut(th, c, g)
    \/ \E g \in GuardIds : DropMutexGuard(g)
    \/ \E th \in Threads : Panic(th)

MutexSpec == Init /\ [][MutexNext]_vars

\* the threads lock Locker mutexes, unlock and drop the guards, and may panic
LockerNext ==
    \/ \E th \in Threads, c \in Cells, g \in GuardIds : sync_lock(th, c, g)
    \/ \E th \in Threads, c \in Cells, g \in GuardIds : try_sync_lock(th, c, g)
    \/ \E g \in GuardIds : unlock(g)
    \/ \E g \in GuardIds : DropMutexGuard(g)
    \/ \E th \in Threads : Panic(th)

LockerSpec == Init /\ [][LockerNext]_vars

\* the statements of the handshake loop, in the order the loop runs them
HandshakeNext ==
    \/ \E size \in 1..MaxDatagram : ConnectorSend(size)
    \/ \E flight \in 1..MaxFlight : AcceptorRecv(flight)
    \/ \E size \in 1..MaxDatagram : AcceptorSend(size)
    \/ AcceptorAccept
    \/ ConnectorRecv

\* the thread that runs the loop keeps running
HandshakeSpec == Init /\ [][HandshakeNext]_vars /\ WF_vars(HandshakeNext)

----------------------------------------------------------------------------
(* Locks *)

\* every operation of the connection state runs its closure inside the
\* mediator (on_poll, with_mut): the mediator lock is held throughout
HoldsMediator(op) ==
    op \in {"send", "recv", "stream_send", "stream_recv", "open_stream", "accept", "close"}

\* the locks a step of a closure acquires: registering a Timeout handle
\* takes the poller's time wheel
LocksTaken(call) == IF call = "register" THEN {"wheel"} ELSE {}

----------------------------------------------------------------------------
(* Properties *)

PollOps == {"send", "recv", "stream_send", "stream_recv", "open_stream", "accept"}

\* C1: no poll of send, recv, stream_send, stream_recv, open_stream or
\* accept returns Pending when the engine reports is_closed at its return
C1_NoPendingWhenClosed ==
    (last.op \in PollOps /\ is_closed) => last.res # "Pending"

EngineDataCalls ==
    {"send_ok", "send_done", "send_err", "recv_ok", "recv_done", "recv_err",
     "stream_send_ok", "stream_send_done", "stream_send_err",
     "stream_recv_ok", "stream_recv_done", "stream_recv_err"}

StartedClosed ==
    last.pre /\ last.op \in {"send", "recv", "stream_send", "stream_recv", "open_stream"}

\* C2: Closed is terminal: an operation that finds the connection closed
\* leaves it closed, and send, recv, stream_send, stream_recv and
\* open_stream started on a closed connection fail with BrokenPipe without
\* calling the engine's send, recv, stream_send or stream_recv
C2_ClosedIsTerminal ==
    /\ last.pre => is_closed
    /\ StartedClosed =>
          /\ last.res = "BrokenPipe"
          /\ \A i \in DOMAIN last.calls : last.calls[i] \notin EngineDataCalls

C2_Witness ==
    /\ StartedClosed
    /\ last.op = "send"
    /\ last.res = "BrokenPipe"

\* the waker of task t was registered while the connection was open: send,
\* stream_send, stream_recv and accept never suspend on a closed connection
RegisteredBeforeClose(t) == tasks[t].pc = "parked" /\ tasks[t].op # "recv"

\* C3: once the connection is closed, every task whose waker was registered
\* in the mediator when it closed is eventually woken
C3_WakersFiredOnClose ==
    \A t \in Tasks : (is_closed /\ RegisteredBeforeClose(t)) ~> (tasks[t].pc # "parked")

\* what the future of a task waits for: the connection closed, or, for
\* accept, a stream id in incoming_streams
ReadyIn(task, ph, incoming) ==
    \/ ph = "closed"
    \/ task.op = "accept" /\ incoming # <<>>

\* C4: a step that makes the readiness predicate of a registered waiter
\* true notifies it: the waiter does not stay registered over that step
C4_ReadyImpliesNotified ==
    [][\A t \in Tasks :
         (/\ tasks[t].pc = "parked"
          /\ ~ReadyIn(tasks[t], conn_phase, incoming_streams)
          /\ ReadyIn(tasks[t], conn_phase', incoming_streams'))
         => tasks'[t] # tasks[t]]_vars

\* driver registry > poller wheel > mediator state
LockRank(l) ==
    CASE l = "registry" -> 3
      [] l = "wheel"    -> 2
      [] l = "mediator" -> 1

\* C5: locks are taken in the order registry, wheel, mediator: while the
\* mediator is held no lock that ranks above it is acquired, and arming
\* the timer inside send's closure does not do so either
C5_LockOrder ==
    HoldsMediator(last.op) =>
        \A i \in DOMAIN last.calls :
            \A l \in LocksTaken(last.calls[i]) : LockRank(l) < LockRank("mediator")

\* the streams the engine still reports alive
EngineAlive == {s \in StreamIds : stream_state[s] \in {"alive", "fin"}}

\* C6: opened_streams is a subset of the streams alive in the engine
C6_OpenedSubsetAlive == opened_streams \subseteq EngineAlive

\* C7: a stream whose id open_stream returned and whose send side was
\* finished by stream_send(id, fin) is not in opened_streams, also after
\* later send/recv stream notification
C7_FinishedNotOpened ==
    \A s \in StreamIds :
        (IsLocal(s) /\ s < stream_id_seed /\ stream_state[s] = "fin")
            => s \notin opened_streams

\* C8: each open_stream returns an id greater by StreamIdStep than the one
\* returned before, also when the counter is at its maximum
C8_IdsIncreaseByStep ==
    [][stream_id_seed' # stream_id_seed
         => stream_id_seed' = stream_id_seed + StreamIdStep]_vars

\* C9: close is idempotent: a second close returns a result of the same
\* class as the first and changes no state
C9_CloseIdempotent ==
    [][(last.op = "close" /\ last'.op = "close")
         => (last'.res = last.res /\ conn_phase' = conn_phase)]_vars

\* the steps i+1 .. i+k of the poll, <<>> when it ended before
After(i, k) ==
    IF i + k <= Len(last.calls) THEN SubSeq(last.calls, i + 1, i + k) ELSE <<>>

\* the steps of the poll after step i
Rest(i) == SubSeq(last.calls, i + 1, Len(last.calls))

\* step j is a call of engine.send
IsRetry(j) ==
    j <= Len(last.calls) /\ last.calls[j] \in {"send_ok", "send_done", "send_err"}

\* the positions where engine.send returned Done on an open connection
DoneOpen ==
    {i \in DOMAIN last.calls :
        last.calls[i] = "send_done" /\ After(i, 1) # <<"handle_close">>}

SendKeeps(sleep) == tasks[last.task].sleep = sleep

\* (a) as stated: one timer armed, Pending
ArmsAndPends(i) ==
    /\ Rest(i) = <<"timeout_some", "sleep_new", "register", "sleep_pending">>
    /\ last.res = "Pending"
    /\ SendKeeps("armed")

\* (a) the timer just armed is already due: on_timeout, retry
ArmsAndRetries(i) ==
    /\ After(i, 5) = <<"timeout_some", "sleep_new", "register", "sleep_ready", "on_timeout">>
    /\ IsRetry(i + 6)

\* (a) the timer cannot be created: the error is returned
ArmFails(i) ==
    /\ Rest(i) = <<"timeout_some", "sleep_new_err">>
    /\ last.res = "Err"
    /\ SendKeeps("none")

\* (b) zero timeout: on_timeout, retry
ZeroRetries(i) ==
    /\ After(i, 2) = <<"timeout_zero", "on_timeout">>
    /\ IsRetry(i + 3)

\* (c) no timeout: Pending, no timer
NonePends(i) ==
    /\ Rest(i) = <<"timeout_none">>
    /\ last.res = "Pending"
    /\ SendKeeps("none")

\* C10 as stated: on Done on an open connection send does exactly one of
\* (a) arm one timer and return Pending, (b) on_timeout and retry,
\* (c) return Pending without a timer; on_timeout is called only after a
\* previously armed timer expired or on a zero timeout
C10_Original ==
    last.op = "send" =>
        /\ \A i \in DoneOpen : ArmsAndPends(i) \/ ZeroRetries(i) \/ NonePends(i)
        /\ \A j \in DOMAIN last.calls :
              last.calls[j] = "on_timeout" =>
                 \/ j > 1 /\ last.calls[j - 1] = "timeout_zero"
                 \/ j = 2 /\ last.calls[1] = "sleep_ready"

\* C10 amended: with a non-zero timeout send arms one timer and polls it:
\* pending, it returns Pending; already due, it calls on_timeout and
\* retries; not creatable, it returns the error. on_timeout is called only
\* after an armed timer expired or on a zero timeout
C10_SendOnDone ==
    last.op = "send" =>
        /\ \A i \in DoneOpen :
              \/ ArmsAndPends(i) \/ ArmsAndRetries(i) \/ ArmFails(i)
              \/ ZeroRetries(i)
              \/ NonePends(i)
        /\ \A j \in DOMAIN last.calls :
              last.calls[j] = "on_timeout" =>
                 j > 1 /\ last.calls[j - 1] \in {"timeout_zero", "sleep_ready"}

C10_Witness ==
    /\ last.op = "send"
    /\ last.res = "Pending"
    /\ \E i \in DoneOpen : ZeroRetries(i)
    /\ \E i \in DoneOpen : ArmsAndPends(i)

NonSendOps == {"recv", "stream_send", "stream_recv", "open_stream", "accept", "close"}

TimerCalls == {"sleep_new", "sleep_new_err", "register", "sleep_ready", "sleep_pending"}

\* C11: only send arms a timer: recv, stream_send, stream_recv, open_stream,
\* accept and close neither create, register nor poll a Sleep, and the
\* future they belong to keeps no timer
C11_OnlySendArms ==
    last.op \in NonSendOps =>
        /\ \A i \in DOMAIN last.calls : last.calls[i] \notin TimerCalls
        /\ last.task \in Tasks => tasks[last.task].sleep = "none"

C11_Witness ==
    /\ last.op = "accept"
    /\ last.res = "Pending"
    /\ \E t \in Tasks : tasks[t].op = "send" /\ tasks[t].sleep = "armed"

\* C12: recv on an open connection: after engine Ok it returns Ok and has
\* notified Send and run stream-notify, or, the engine being closed, has
\* woken all waiters instead; on engine Done it returns Pending; on another
\* engine error it returns the error
C12_RecvContract ==
    (last.op = "recv" /\ ~last.pre) =>
        /\ Len(last.calls) >= 1
        /\ last.calls[1] \in {"recv_ok", "recv_done", "recv_err"}
        /\ last.calls[1] = "recv_ok" =>
              /\ last.res = "Ok"
              /\ is_closed =>
                    /\ last.calls = <<"recv_ok", "handle_close">>
                    /\ last.ntf = AllEvents
              /\ ~is_closed =>
                    /\ last.calls = <<"recv_ok", "notify_send", "handle_stream">>
                    /\ Ev("Send", NoId) \in last.ntf
        /\ last.calls[1] = "recv_done" => last.res = "Pending"
        /\ last.calls[1] = "recv_err" => last.res = "Err"

C12_Witness ==
    /\ last.op = "recv"
    /\ last.res = "Ok"
    /\ ~is_closed
    /\ "handle_stream" \in {last.calls[i] : i \in DOMAIN last.calls}
    /\ last.incoming0 = <<>>
    /\ incoming_streams # <<>>

Range(seq) == {seq[i] : i \in DOMAIN seq}

\* the ids of seq that are not in seen, each once, in the order they come
RECURSIVE FirstNew(_, _)
FirstNew(seq, seen) ==
    IF seq = <<>> THEN <<>>
    ELSE IF Head(seq) \in seen THEN FirstNew(Tail(seq), seen)
    ELSE <<Head(seq)>> \o FirstNew(Tail(seq), seen \cup {Head(seq)})

NotifiedIds(name) == {id \in StreamIds : Ev(name, id) \in last.ntf}

\* C13: stream-notify after a successful send or recv: every readable id
\* not yet in opened_streams is inserted, appended to incoming_streams and
\* announced by Accept, and StreamRecv(id) is notified for every readable
\* id; every writable id is in opened_streams afterwards and StreamSend(id)
\* is notified; an id already in opened_streams is not appended again
C13_StreamNotify ==
    "handle_stream" \in Range(last.calls) =>
        \E rs \in ReadableIters(stream_state), ws \in WritableIters(stream_state) :
            LET new == FirstNew(rs \o ws, last.opened0)
            IN  /\ NotifiedIds("StreamRecv") = Range(rs)
                /\ NotifiedIds("StreamSend") = Range(ws)
                /\ opened_streams = last.opened0 \cup Range(rs) \cup Range(ws)
                /\ incoming_streams = last.incoming0 \o new
                /\ (Ev("Accept", NoId) \in last.ntf) <=> (new # <<>>)

C13_Witness ==
    /\ "handle_stream" \in Range(last.calls)
    /\ \E a, b \in StreamIds :
          /\ a # b
          /\ a \in last.opened0 /\ Ev("StreamRecv", a) \in last.ntf
          /\ b \notin last.opened0 /\ b \in opened_streams
          /\ incoming_streams = last.incoming0 \o <<b>>

\* C14: stream_send on an open connection: on engine Ok it notifies Send,
\* removes id from opened_streams iff fin, and returns Ok; on engine Done
\* it returns Pending, or BrokenPipe when the engine is closed, and leaves
\* opened_streams as it was
C14_StreamSendContract ==
    (last.op = "stream_send" /\ ~last.pre) =>
        /\ Len(last.calls) >= 1
        /\ last.calls[1] = "stream_send_ok" =>
              /\ last.res = "Ok"
              /\ Ev("Send", NoId) \in last.ntf
              /\ opened_streams =
                    IF last.fin THEN last.opened0 \ {last.id} ELSE last.opened0
        /\ last.calls[1] = "stream_send_done" =>
              /\ last.res = IF is_closed THEN "BrokenPipe" ELSE "Pending"
              /\ opened_streams = last.opened0

C14_Witness ==
    /\ last.op = "stream_send"
    /\ last.res = "Ok"
    /\ last.fin
    /\ last.id \in last.opened0
    /\ last.id \notin opened_streams

\* C15: stream_recv on an open connection: on engine Ok it returns Ok with
\* the fin flag and, the engine not being closed, has notified Recv and
\* Send; on engine Done it returns Pending, or BrokenPipe when the engine is
\* closed; it never changes opened_streams or incoming_streams
C15_StreamRecvContract ==
    last.op = "stream_recv" =>
        /\ opened_streams = last.opened0
        /\ incoming_streams = last.incoming0
        /\ ~last.pre =>
              /\ Len(last.calls) >= 1
              /\ last.calls[1] = "stream_recv_ok" =>
                    /\ last.res = "Ok"
                    /\ last.val \in {0, 1}
                    /\ ~is_closed =>
                          {Ev("Recv", NoId), Ev("Send", NoId)} \subseteq last.ntf
              /\ last.calls[1] = "stream_recv_done" =>
                    last.res = IF is_closed THEN "BrokenPipe" ELSE "Pending"

C15_Witness ==
    /\ last.op = "stream_recv"
    /\ last.res = "Ok"
    /\ last.val = 1
    /\ ~is_closed
    /\ last.opened0 # {}

----------------------------------------------------------------------------
(* C16 *)

IsPrefix(p, q) == Len(p) <= Len(q) /\ SubSeq(q, 1, Len(p)) = p

\* C16: accept returns the streams in the order their ids were appended to
\* incoming_streams: it takes the front of the queue and every other
\* operation only appends at the back. It returns Pending exactly when the
\* connection is not closed and the queue is empty, and None whenever the
\* connection is closed, the queue then being left as it is.
C16_AcceptContract ==
    /\ last.op = "accept" =>
          /\ (last.res = "Pending") <=> (~last.pre /\ last.incoming0 = <<>>)
          /\ last.pre => last.res = "None" /\ incoming_streams = last.incoming0
          /\ (~last.pre /\ last.incoming0 # <<>>) =>
                 /\ last.res = "Some"
                 /\ last.val = Head(last.incoming0)
                 /\ incoming_streams = Tail(last.incoming0)
    /\ last.op \notin {"accept", "none"} => IsPrefix(last.incoming0, incoming_streams)

\* accept has taken the first of two different queued streams
C16_Witness ==
    /\ last.op = "accept"
    /\ last.res = "Some"
    /\ Len(last.incoming0) = 2
    /\ last.incoming0[1] # last.incoming0[2]

\* accept has returned None on a closed connection with a stream queued
C16_ClosedWithQueued ==
    /\ last.op = "accept"
    /\ last.pre
    /\ last.incoming0 # <<>>

----------------------------------------------------------------------------
(* C17 *)

\* C17: dropping an accept that returned Pending is harmless. The Pending
\* poll consumed nothing; while an accept waits, or its dropped future's
\* waker is still registered, nothing has arrived unnoticed; when the stale
\* waker is invoked by an arrival the stream is still queued; and the accept
\* polled after that completes with the stream at the front of the queue.
C17_CancelledAcceptHarmless ==
    /\ (last.op = "accept" /\ last.res = "Pending") =>
          /\ incoming_streams = last.incoming0
          /\ opened_streams = last.opened0
    /\ \A t \in Tasks :
          /\ (tasks[t].op = "accept" /\ tasks[t].pc \in {"parked", "dropped"}) =>
                 incoming_streams = <<>>
          /\ tasks[t].pc = "dropped_woken" => (is_closed \/ incoming_streams # <<>>)
    /\ (last.op = "accept" /\ last.was = "dropped") =>
          last.res \in {"Pending", "None"}
    /\ (last.op = "accept" /\ last.was = "dropped_woken") =>
          /\ last.res \in {"Some", "None"}
          /\ last.res = "Some" => last.val = Head(last.incoming0)
          /\ last.res = "None" => last.pre

\* an accept was dropped, a stream arrived and invoked the stale waker, and
\* the next accept has returned that stream
C17_Witness ==
    /\ last.op = "accept"
    /\ last.was = "dropped_woken"
    /\ last.res = "Some"

----------------------------------------------------------------------------
(* C18 *)

Min(a, b) == IF a < b THEN a ELSE b

\* C18: poll_once waits on the OS for min(timeout, tick_duration) when a
\* timeout is given and for tick_duration when none is given: the OS wait
\* never exceeds tick_duration.
C18_WaitAtMostOneTick ==
    polled # NoPoll =>
        /\ polled.poll_timeout = IF polled.timeout = None THEN TickDuration
                                 ELSE Min(polled.timeout, TickDuration)
        /\ polled.waited <= TickDuration

----------------------------------------------------------------------------
(* C19 *)

\* what the OS reported ready for an event
Ready(event) ==
    {i \in {"Readable", "Writable"} :
        \/ i = "Readable" /\ event.readable
        \/ i = "Writable" /\ event.writable}

\* C19: for every OS event, the interest poll_once reports for its token
\* is exactly the set of Readable and Writable the OS reported ready, an
\* event that is neither readable nor writable included.
C19_InterestsPreserved ==
    \A e \in polled.os :
        \A x \in polled.events : x.token = e.token => x.interests = Ready(e)

----------------------------------------------------------------------------
(* C20 *)

\* C20: a timer of duration d that is polled at least once per tick after
\* it was armed is emitted no sooner than d and no later than
\* d + tick_duration after it was armed, however long the wheel had not
\* been advanced before.
C20_TimerLatency ==
    \A t \in polled.timers :
        steady[t] =>
            /\ now - timeouts[t].start_time >= timeouts[t].duration
            /\ now - timeouts[t].start_time <= timeouts[t].duration + TickDuration

----------------------------------------------------------------------------
(* C21 *)

\* C21: a timer that was armed once has its token returned, as Readable,
\* by one poll_once of the whole run and by no second one; while it is
\* registered, it has been returned as soon as the wheel, which every
\* poll_once advances, has reached its slot.
C21_ReturnedExactlyOnce ==
    /\ \A t \in TimerTokens :
          timer_log[t].arms = 1 =>
              /\ timer_log[t].fired <= 1
              /\ (timer_log[t].live /\ time_wheel.tick >= timeouts[t].slot) =>
                     timer_log[t].fired = 1
    /\ \A t \in polled.timers :
          \A x \in polled.hala_events :
              x.token = t => x.interests = {"Readable"}
    /\ \A t \in polled.timers : \E x \in polled.hala_events : x.token = t

\* the poll_once that has just returned has returned a timer armed once
C21_Witness ==
    \E t \in polled.timers : timer_log[t].arms = 1 /\ timer_log[t].fired = 1

----------------------------------------------------------------------------
(* C22 *)

\* C22: after any sequence of register, reregister and deregister on a
\* timer handle its token is in at most one slot of the wheel, and in none
\* after deregister.
C22_AtMostOneSlot ==
    \A t \in TimerTokens :
        /\ Cardinality({e \in time_wheel.timers : e.token = t}) <= 1
        /\ (called.op = "deregister" /\ called.token = t /\ called.res = "ok") =>
               t \notin InWheel(time_wheel)

----------------------------------------------------------------------------
(* C23 *)

\* C23: register followed by deregister of the same handle, which was not
\* registered before, leaves the poller as it was: the slots of the wheel
\* and the OS registry are those the register found, and the handle's
\* record reads as unregistered again (is_register, is_expired).
C23_RegisterDeregister ==
    (called.op = "deregister" /\ called.undo /\ called.res = "ok") =>
        /\ time_wheel.timers = called.wheel0
        /\ {registry} = called.registry0
        /\ called.token \in TimerTokens =>
              /\ ~is_register(timeouts[called.token])
              /\ ~is_expired(timeouts[called.token], now)

----------------------------------------------------------------------------
(* C24 *)

\* C24: every token a poll_once returns is that of a handle registered
\* with the poller and not deregistered since: a socket in the OS registry,
\* a timer whose last registration call was not a deregister.
C24_OnlyRegisteredTokens ==
    \A x \in polled.hala_events :
        /\ x.token \in SocketTokens => registry[x.token] # NotRegistered
        /\ x.token \in TimerTokens => timer_log[x.token].live

----------------------------------------------------------------------------
(* C25 *)

\* C25: registering or re-arming a timer of duration 0 is rejected, here
\* by a failed assertion, and leaves the wheel as it was; no timer of zero
\* ticks is ever in the wheel.
C25_ZeroDurationRejected ==
    /\ (/\ called.op \in {"register", "reregister"}
        /\ called.token \in TimerTokens
        /\ timeouts[called.token].duration = 0) =>
           /\ called.res = "panic"
           /\ time_wheel.timers = called.wheel0
    /\ \A t \in InWheel(time_wheel) :
           /\ timeouts[t].duration > 0
           /\ duration_to_ticks(timeouts[t].duration, TickDuration, TRUE) >= 1

\* the register or re-arming of a timer of duration 0 has just been rejected
C25_Witness ==
    /\ called.op \in {"register", "reregister"}
    /\ called.token \in TimerTokens
    /\ timeouts[called.token].duration = 0
    /\ called.res = "panic"

----------------------------------------------------------------------------
(* C26: arming a timer converts its duration d > 0 to ceil(d / tick_duration)
   ticks: the tick count t is at least 1 and (t-1)*tick_duration < d <=
   t*tick_duration, also when the tick count does not fit in a u32.
   Violated: at d = 2^32 ticks exactly the count is cut to 0 in the test
   `tick_duration * (ticks as u32) < duration`, and one tick too many is
   returned. *)
C26_CeilingTicks ==
    conv.ticks # None =>
        /\ conv.ticks >= 1
        /\ (conv.ticks - 1) * TickDuration < conv.duration
        /\ conv.duration <= conv.ticks * TickDuration

----------------------------------------------------------------------------
(* C27: driver registration is one-shot.  get_driver before any
   register_driver fails with NotFound; a register_driver that finds no
   driver succeeds and installs its driver; one that finds a driver fails
   with PermissionDenied; the installed driver never changes, so every
   get_driver returns the instance of the first successful register_driver. *)
C27_OneShotRegistration ==
    \A th \in Threads :
        LET call == driver_calls[th]
        IN  /\ call.op = "get" /\ call.was = None => call.res = "NotFound"
            /\ call.op = "get" /\ call.was # None =>
                   call.res = "Ok" /\ call.driver = call.was
            /\ call.op = "register" /\ call.was = None => call.res = "Ok"
            /\ call.op = "register" /\ call.was # None => call.res = "PermissionDenied"
            /\ call.res = "Ok" => DRIVER = call.driver
            /\ call.was # None => DRIVER = call.was

\* one thread registered a driver, the other was refused with another
\* driver: the first one stays installed
C27_Witness ==
    /\ driver_calls["main"].op = "register" /\ driver_calls["main"].res = "Ok"
    /\ driver_calls["worker"].op = "register"
    /\ driver_calls["worker"].res = "PermissionDenied"
    /\ driver_calls["worker"].driver # driver_calls["main"].driver
    /\ DRIVER = driver_calls["main"].driver

----------------------------------------------------------------------------
\* the wrapper of the handle is gone: its construction failed, or it was
\* dropped, with or without a panic
Gone(h) == h.life \in {"failed", "dropped", "panicked"}

(* C28: every handle a socket wrapper obtained from fd_open or from Accept
   is closed exactly once over the wrapper's lifetime: never twice, and
   once the wrapper is gone (construction failed, dropped, dropped with a
   failing Deregister) the handle is closed.
   Violated: Drop unwraps the result of Deregister before it reaches
   fd_close, and the wrappers of net.rs never call fd_close. *)
C28_ClosedExactlyOnce ==
    \A fd \in Fds :
        /\ handles[fd].closes <= 1
        /\ Gone(handles[fd]) /\ handles[fd].calls # <<>> =>
               handles[fd].closes = 1 /\ ~handles[fd].open

(* C29: Deregister(fd) is issued to the poller a handle is registered with
   before fd_close(fd): fd_close is never called on a handle that is still
   registered (every successful Register before it is followed, before it,
   by a successful Deregister at the same poller), and a dropped
   TcpListener or TcpStream issued Deregister to its poller and then
   fd_close, in that order and last. *)
C29_DeregisterBeforeClose ==
    \A fd \in Fds :
        LET h == handles[fd]
            n == Len(h.calls)
        IN  /\ \A i \in 1..n : h.calls[i].cmd = "fd_close" =>
                   \A j \in 1..(i - 1) :
                       h.calls[j].cmd = "Register" /\ h.calls[j].res = "Ok" =>
                           \E k \in (j + 1)..(i - 1) :
                               h.calls[k] = Call("Deregister", h.calls[j].poller, "Ok")
            /\ ~h.open => h.registered = {}
            /\ h.wrapper \in {"TcpListener", "TcpStream"} /\ h.life = "dropped" =>
                   /\ n >= 2
                   /\ h.calls[n - 1] = Call("Deregister", h.poller, "Ok")
                   /\ h.calls[n].cmd = "fd_close"

\* an accepted TcpStream, registered with another poller than its
\* listener's, was dropped
C29_Witness ==
    \E l \in Fds, fd \in Fds :
        /\ handles[l].wrapper = "TcpListener"
        /\ handles[fd].wrapper = "TcpStream"
        /\ handles[fd].poller # handles[l].poller
        /\ handles[fd].life = "dropped"
        /\ handles[fd].calls = <<Call("Accept", "none", "Ok"),
                                 Call("Register", handles[fd].poller, "Ok"),
                                 Call("Deregister", handles[fd].poller, "Ok"),
                                 Call("fd_close", "none", "Ok")>>

----------------------------------------------------------------------------
(* C30: LocalShared::try_lock_mut returns None whenever a reference
   obtained from lock, lock_mut or try_lock_mut of the same value is still
   alive, and Some otherwise; a mutable reference to a value never exists
   together with another reference to the same value. *)
C30_TryLockMut ==
    /\ shared_call.op = "try_lock_mut" =>
           /\ shared_call.alive0 # {} => shared_call.res = "None"
           /\ shared_call.alive0 = {} => shared_call.res = "RefMut"
    /\ \A g \in GuardIds :
           guards[g].kind = "RefMut" => Alive(guards[g].cell) = {g}

\* try_lock_mut has just returned None on a value that is borrowed shared
\* twice, while the other value is mutably borrowed
C30_Witness ==
    /\ shared_call.op = "try_lock_mut"
    /\ shared_call.res = "None"
    /\ Cardinality(shared_call.alive0) = 2
    /\ \A g \in shared_call.alive0 : guards[g].kind = "Ref"
    /\ \E g \in GuardIds : guards[g].kind = "RefMut"

----------------------------------------------------------------------------
(* C31: MutexShared gives mutual exclusion across threads: at most one
   guard obtained from lock, lock_mut or try_lock_mut of the same value
   exists at any time, a guard of lock excluding as a guard of lock_mut
   does; try_lock_mut never blocks (it can always return) and returns None
   when another guard exists. *)
C31_MutualExclusion ==
    /\ \A c \in Cells : Cardinality(Holders(c)) <= 1
    /\ mutex_call.op = "try_lock_mut" /\ mutex_call.alive0 # {} => mutex_call.res = "None"
    /\ \A th \in Threads, c \in Cells :
           \E g \in GuardIds : ENABLED MutexShared_try_lock_mut(th, c, g)

\* try_lock_mut of one thread has just returned None because the other
\* thread holds a guard of lock on the value
C31_Witness ==
    /\ mutex_call.op = "try_lock_mut"
    /\ mutex_call.res = "None"
    /\ \E g \in mutex_call.alive0 : mutex_guards[g].thread = "worker"
    /\ Holders(mutex_call.cell) = mutex_call.alive0

----------------------------------------------------------------------------
(* C32: unlock() on a Locker guard releases the mutex at once, while the
   guard object still exists: after it the mutex is free and a
   sync_lock / try_sync_lock of the same mutex succeeds; a second unlock()
   and the later drop of the guard leave the mutex as it is, also when
   another guard holds it by then. *)
C32_UnlockReleases ==
    /\ mutex_call.op = "unlock" /\ mutex_call.held0 =>
           /\ ~mutex[mutex_call.cell].locked
           /\ mutex_guards[mutex_call.guard] # NoMutexGuard
    /\ mutex_call.op \in {"unlock", "drop"} /\ ~mutex_call.held0 =>
           mutex[mutex_call.cell].locked = mutex_call.locked0
    /\ /\ mutex_call.op \in {"sync_lock", "try_sync_lock"}
       /\ mutex_call.alive0 = {}
       /\ ~mutex[mutex_call.cell].poisoned
       => mutex_call.res = "Guard"
    /\ \A c \in Cells : mutex[c].locked <=> Holders(c) # {}

\* the first guard was unlocked and still exists; another thread has
\* locked the same mutex since, and a second unlock of the first guard has
\* just returned
C32_Witness ==
    /\ mutex_call.op = "unlock"
    /\ ~mutex_call.held0
    /\ mutex_guards[mutex_call.guard].thread = "main"
    /\ \E g \in Holders(mutex_call.cell) : mutex_guards[g].thread = "worker"

----------------------------------------------------------------------------
(* C33: the handshake loop connector.send -> acceptor.recv -> acceptor.send
   -> acceptor.accept -> connector.recv terminates: after finitely many
   rounds accept returns exactly one connection with
   connector.is_established() true; in every earlier round accept fails
   with WouldBlock (no connection is handed out, no assertion or unwrap
   panics), each recv having consumed the bytes the peer's send produced. *)
C33_HandshakeTerminates ==
    /\ [](/\ handshake.pc # "panicked"
          /\ handshake.pc # "done" => handshake.conns = 0
          /\ handshake.pc = "done" =>
                 handshake.conns = 1 /\ is_established(handshake))
    /\ <>(handshake.pc = "done")

\* the loop has ended in its fourth round, the server's flight having
\* taken three datagrams
C33_Witness ==
    /\ handshake.pc = "done"
    /\ handshake.round = 4
    /\ handshake.flight = 3
    /\ handshake.conns = 1

----------------------------------------------------------------------------
(* C34: a stream id returned by open_stream of this connection is never
   returned by its accept(): a locally opened stream is never appended to
   incoming_streams, whatever readable() and writable() report.
   Violated: open_stream does not enter the id into opened_streams, so
   handle_accept takes the stream for a new one once the engine reports it. *)
C34_OpenedNeverAccepted ==
    /\ \A id \in StreamIds :
           id \in stream_log.opened =>
               /\ stream_log.accepted[id] = 0
               /\ \A i \in 1..Len(incoming_streams) : incoming_streams[i] # id

(* C35: over the lifetime of a connection each stream id is returned by
   accept() at most once, also when the send side of an accepted stream is
   finished while the engine still reports the stream readable or writable.
   Violated: stream_send with fin removes the id from opened_streams, and
   the next handle_stream queues the stream again. *)
C35_AcceptedAtMostOnce ==
    \A id \in StreamIds : stream_log.on => stream_log.accepted[id] <= 1

----------------------------------------------------------------------------
(* C36 *)

\* the time since the wheel was created, in whole ticks
ElapsedTicks == now \div TickDuration

\* the timers of the wheel a poll_once found whose slot the wheel had to
\* reach by the time the call returned
CameDue(p) ==
    {e.token : e \in {x \in p.wheel0.timers :
                          p.wheel0.tick < x.slot /\ x.slot <= ElapsedTicks}}

\* the wheel is level with the clock after the poll_once p
CaughtUp(p) ==
    /\ time_wheel.tick = ElapsedTicks
    /\ CameDue(p) \subseteq p.timers

\* C36, as amended: the wheel's tick counter never exceeds the whole ticks
\* elapsed since the wheel was created, so the subtraction in
\* MioTimeWheel::tick never underflows; after every poll_once that returns
\* Ok the counter equals that number: one poll_once after a long gap makes
\* all the missed ticks and returns every timer that came due in the gap
C36_TickCounter ==
    /\ time_wheel.tick <= ElapsedTicks
    /\ polled.res # "none" => polled.wheel0.tick <= ElapsedTicks
    /\ polled.res = "Ok" => CaughtUp(polled)

\* a poll_once after a gap of two ticks or more that returned a timer
C36_Witness ==
    /\ polled.res = "Ok"
    /\ time_wheel.tick - polled.wheel0.tick >= 2
    /\ polled.timers # {}

\* C36 as stated: after every poll_once, also one that returns the error
\* of the OS wait, the counter equals the whole ticks elapsed and every
\* timer that came due was returned
C36_Original ==
    /\ time_wheel.tick <= ElapsedTicks
    /\ polled.res # "none" => CaughtUp(polled)

----------------------------------------------------------------------------
(* C37 *)

\* C37: an open_stream that fails because the connection is closed
\* returns BrokenPipe without notifying any waiter and without changing
\* the connection's state, the stream-id counter included
C37_FailedOpenChangesNothing ==
    [][(last.op = "none" /\ last'.op = "open_stream" /\ last'.res = "BrokenPipe")
           => /\ last'.ntf = {}
              /\ tasks' = tasks
              /\ conn_phase' = conn_phase
              /\ stream_state' = stream_state
              /\ opened_streams' = opened_streams
              /\ incoming_streams' = incoming_streams
              /\ stream_id_seed' = stream_id_seed]_vars

----------------------------------------------------------------------------
(* C38 *)

\* C38: a stream_send that fails leaves opened_streams unchanged: after
\* an error of the engine other than Done the stream id is in
\* opened_streams as before, whether or not fin was requested
C38_FailedSendKeepsOpened ==
    (last.op = "stream_send" /\ last.res = "Err") => opened_streams = last.opened0

====
